---- MODULE Spec2Model ----
(***************************************************************************)
(* A model of the thermodynamic calculation engine of HeatSim              *)
(* (src/logic.py): calculate(), the FlowState API (full, the five schema   *)
(* solvers, the multi-component contact formulas).                         *)
(*                                                                         *)
(* Numbers.  A Python float is modelled by an exact rational <<n, d>>      *)
(* (d > 0, gcd(n, d) = 1), so +, -, *, / are the real-number operations    *)
(* the code writes.  round(x, k) is decimal rounding to k places (ties to  *)
(* even).  math.log and math.exp are evaluated by series in fixed point    *)
(* and are accurate to about four decimal places.                          *)
(***************************************************************************)
EXTENDS Integers, Sequences, FiniteSets, TLC

----------------------------------------------------------------------------
(* Rational arithmetic (Python float arithmetic over the reals).           *)
(* A result is exact while its numerator stays below 10^9 and its          *)
(* denominator below 10^8; a result outside that range is rounded to nine  *)
(* significant digits, at most six decimals (in this model only values     *)
(* that hold a logarithm or an exponential, which are approximate already, *)
(* get that large).                                                        *)

Abs(i) == IF i < 0 THEN -i ELSE i

Sgn(i) == IF i < 0 THEN -1 ELSE 1

RECURSIVE Gcd(_, _)
Gcd(a, b) == IF b = 0 THEN a ELSE Gcd(b, a % b)

RECURSIVE Pow10(_)
Pow10(k) == IF k = 0 THEN 1 ELSE 10 * Pow10(k - 1)

\* a * b stays below 10^9 (a, b >= 0)
Fits(a, b) == a = 0 \/ b = 0 \/ a <= Pow10(9) \div b

\* a * b is a denominator an exact result may have (a, b > 0)
FitsDen(a, b) == a <= Pow10(8) \div b

\* the decimals (at most 6) a value of magnitude below e is rounded to when it
\* cannot be kept exact: 9 significant digits
RECURSIVE DecimalsFor(_)
DecimalsFor(e) == IF e <= 1000 THEN 6 ELSE IF e >= Pow10(9) THEN 0
                  ELSE DecimalsFor((e + 9) \div 10) - 1

\* <<q, r>> with a * m = q * b + r, 0 <= r < b (a, m >= 0, b > 0), by binary
\* long multiplication, so that no intermediate value leaves 32 bits
RECURSIVE MulDivMod(_, _, _)
MulDivMod(a, m, b) ==
    IF m = 0 THEN <<0, 0>>
    ELSE LET p == MulDivMod(a, m \div 2, b)
             t == 2 * p[2] + a * (m % 2)
         IN  <<2 * p[1] + (t \div b), t % b>>

\* a * m / b rounded to the nearest integer, ties to even (a, m >= 0, b > 0)
MulDivRound(a, m, b) ==
    LET qr == MulDivMod(a, m, b)
    IN  IF 2 * qr[2] > b THEN qr[1] + 1
        ELSE IF 2 * qr[2] < b THEN qr[1]
        ELSE IF qr[1] % 2 = 0 THEN qr[1] ELSE qr[1] + 1

\* n * 10^k / d rounded to the nearest integer, ties to even (d > 0)
ScaledRound(n, d, k) == Sgn(n) * MulDivRound(Abs(n), Pow10(k), d)

\* the rational n/d in lowest terms, sign in the numerator
R(n, d) ==
    LET g == Gcd(Abs(n), Abs(d))
        s == IF d < 0 THEN -1 ELSE 1
    IN  IF n = 0 THEN <<0, 1>> ELSE <<s * (n \div g), s * (d \div g)>>

Num(i) == <<i, 1>>
Zero == <<0, 1>>

\* a decimal literal: Dec(42, 1) is 4.2
Dec(m, k) == R(m, Pow10(k))

RNeg(x) == <<-x[1], x[2]>>

\* x + y for dx = x[2] / g, dy = y[2] / g, g the gcd of the denominators; a
\* sum out of range is taken to k decimals
AddParts(x, y, dx, dy, k) ==
    IF Fits(Abs(x[1]), dy) /\ Fits(Abs(y[1]), dx) /\ FitsDen(dx, y[2])
    THEN R(x[1] * dy + y[1] * dx, dx * y[2])
    ELSE R(ScaledRound(x[1], x[2], k) + ScaledRound(y[1], y[2], k), Pow10(k))

RAdd(x, y) ==
    AddParts(x, y, x[2] \div Gcd(x[2], y[2]), y[2] \div Gcd(x[2], y[2]),
             DecimalsFor((Abs(x[1]) \div x[2]) + (Abs(y[1]) \div y[2]) + 2))

RSub(x, y) == RAdd(x, RNeg(y))

\* sg * (nx/dx) * (ny/dy) out of range: ny/dy is taken to j decimals and the
\* product to k decimals
MulRounded(sg, nx, ny, dx, dy, j, k) ==
    R(sg * MulDivRound(nx, MulDivRound(ny, Pow10(j), dy), dx * Pow10(j - k)), Pow10(k))

\* a * b stays below 5 * 10^8 (a, b >= 0)
FitsHalf(a, b) == a = 0 \/ b = 0 \/ a <= (5 * Pow10(8)) \div b

\* sg * n / d for products n, d in range of one long division: the quotient
\* to 9 significant digits
MulQuotient(sg, n, d) ==
    R(sg * MulDivRound(n, Pow10(DecimalsFor((n \div d) + 1)), d),
      Pow10(DecimalsFor((n \div d) + 1)))

\* sg * (nx/dx) * (ny/dy) for cross-reduced nx/dy and ny/dx, exactly if the
\* result is in range, by one division if the two products are
MulParts(sg, nx, ny, dx, dy) ==
    IF Fits(nx, ny) /\ FitsDen(dx, dy)
    THEN R(sg * nx * ny, dx * dy)
    ELSE IF FitsHalf(nx, ny) /\ FitsHalf(dx, dy)
    THEN MulQuotient(sg, nx * ny, dx * dy)
    ELSE MulRounded(sg, nx, ny, dx, dy, DecimalsFor((ny \div dy) + 1),
                    IF DecimalsFor(((nx \div dx) + 1) * ((ny \div dy) + 1))
                           < DecimalsFor((ny \div dy) + 1)
                    THEN DecimalsFor(((nx \div dx) + 1) * ((ny \div dy) + 1))
                    ELSE DecimalsFor((ny \div dy) + 1))

\* x * y for x[2] <= y[2]
MulOrdered(x, y) ==
    MulParts(Sgn(x[1]) * Sgn(y[1]),
             Abs(x[1]) \div Gcd(Abs(x[1]), y[2]), Abs(y[1]) \div Gcd(Abs(y[1]), x[2]),
             x[2] \div Gcd(Abs(y[1]), x[2]), y[2] \div Gcd(Abs(x[1]), y[2]))

RMul(x, y) ==
    IF x[1] = 0 \/ y[1] = 0 THEN Zero
    ELSE MulOrdered(IF x[2] <= y[2] THEN x ELSE y, IF x[2] <= y[2] THEN y ELSE x)

\* x / y; every division of the code is guarded, see the callers (a division
\* by zero is undefined here, so TLC stops with an error on it)
RDiv(x, y) ==
    IF y[1] = 0 THEN CHOOSE v \in {} : TRUE
    ELSE RMul(x, <<Sgn(y[1]) * y[2], Abs(y[1])>>)

RLt(x, y) == RSub(x, y)[1] < 0
RGt(x, y) == RLt(y, x)
RPos(x) == x[1] > 0
RNonZero(x) == x[1] /= 0

\* Python round(x, k)
Round(x, k) == R(ScaledRound(x[1], x[2], k), Pow10(k))

----------------------------------------------------------------------------
(* math.log and math.exp by series, in fixed point with unit 10^-6.        *)

\* floor(a * b / 10^6) for 0 <= a, b < 10^6, without leaving 32 bits
MulMicro(a, b) ==
    LET t == (a \div 1000) * b
    IN  (t \div 1000) + (((t % 1000) * 1000 + (a % 1000) * b) \div Pow10(6))

\* x = n/d > 0 as (n/d) = 2^k * (n'/d') with 2/3 <= n'/d' <= 3/2
RECURSIVE LnReduce(_, _, _)
LnReduce(n, d, k) ==
    IF 2 * n > 3 * d THEN LnReduce(n, 2 * d, k + 1)
    ELSE IF 3 * n < 2 * d THEN LnReduce(2 * n, d, k - 1)
    ELSE <<n, d, k>>

\* z + z^3/3 + ... + z^9/9 in units of 10^-6; p is z^n, z2 is z^2
RECURSIVE AtanhSeries(_, _, _)
AtanhSeries(p, z2, n) ==
    IF n > 9 THEN 0 ELSE (p \div n) + AtanhSeries(MulMicro(p, z2), z2, n + 2)

\* z = (a - b)/(a + b) in units of 10^-6, for a >= b > 0
AtanhArg(red) == ScaledRound(Abs(red[1] - red[2]), red[1] + red[2], 6)

\* 10^6 * ln of the reduced ratio red = <<n, d, k>>: 2*atanh(z) plus k*ln 2
LnReduced(red, z) ==
    (IF red[1] < red[2] THEN -1 ELSE 1) * 2 * AtanhSeries(z, MulMicro(z, z), 1)
    + red[3] * 693147

LnOfReduced(red) == LnReduced(red, AtanhArg(red))

\* 10^6 * ln(n/d) for n >= d > 0
LnUnits(n, d) == LnOfReduced(LnReduce(n, d, 0))

\* math.log(x) for x > 0 (the callers raise ValueError otherwise; the
\* logarithm of a non-positive number is undefined here, so TLC stops on it)
Ln(x) ==
    IF x[1] <= 0 THEN CHOOSE v \in {} : TRUE
    ELSE IF x[1] >= x[2] THEN R(LnUnits(x[1], x[2]), Pow10(6))
    ELSE R(-LnUnits(x[2], x[1]), Pow10(6))

\* r^n/n! + ... + r^9/9! in units of 10^-6; t is r^(n-1)/(n-1)!
RECURSIVE ExpTerms(_, _, _)
ExpTerms(t, r, n) ==
    IF n > 9 THEN 0
    ELSE (MulMicro(t, r) \div n) + ExpTerms(MulMicro(t, r) \div n, r, n + 1)

\* 10^6 * exp(r / 10^6) for 0 <= r < 10^6 * ln 2, by the Taylor series
ExpSeries(r) == Pow10(6) + r + ExpTerms(r, r, 2)

RECURSIVE Pow2(_)
Pow2(k) == IF k = 0 THEN 1 ELSE 2 * Pow2(k - 1)

\* 2^k * e / 10^6 for e = 10^6 * exp(r)
ExpScaled(e, k) ==
    IF k >= 0 THEN R(e * Pow2(k), Pow10(6))
    ELSE IF k < -29 THEN Zero
    ELSE R(MulDivRound(e, 1, Pow2(-k)), Pow10(6))

\* exp(u / 10^6) = 2^k * exp(u / 10^6 - k * ln 2), k = floor(u / (10^6 ln 2))
ExpUnits(u) == ExpScaled(ExpSeries(u - (u \div 693147) * 693147), u \div 693147)

\* math.exp(x), for |x| small enough not to overflow a float
Exp(x) == ExpUnits(ScaledRound(x[1], x[2], 6))

----------------------------------------------------------------------------
(* Data model: Component, FlowState, Python truthiness.                    *)

\* Python None (FlowState.contact_type before classification)
None == "None"

\* dict.get(key, default)
DictGet(d, key, default) == IF key \in DOMAIN d THEN d[key] ELSE default

\* a value float() rejects (None, a word): written as the empty tuple
NotANumber == <<>>

\* _to_float: float(x), and 0.0 when float() raises
to_float(x) == IF Len(x) = 2 THEN x ELSE Zero

\* dataclass Component
Component(share, tb, cf, cp, rf) ==
    [Share |-> share, T_b |-> tb, C_f |-> cf, C_p |-> cp, r_f |-> rf]

\* dataclass FlowState with its defaults
FlowState(tic, toc, tih, toh, gc, gh, Q, schema) ==
    [T_in_cold |-> tic, T_out_cold |-> toc, T_in_hot |-> tih, T_out_hot |-> toh,
     g_cold |-> gc, g_hot |-> gh, Q |-> Q, K |-> Zero, Sigma |-> Zero,
     W_cold |-> Zero, W_hot |-> Zero, W |-> Zero, A |-> Zero, B |-> Zero,
     countCold |-> 0, countHot |-> 0, schema |-> schema, contact_type |-> None]

RECURSIVE SumSeq(_)
SumSeq(s) == IF Len(s) = 0 THEN Zero ELSE RAdd(Head(s), SumSeq(Tail(s)))

_capacity_from_components(components, T_ref) ==
    SumSeq([i \in 1..Len(components) |->
        RMul(components[i].Share,
             IF RLt(T_ref, components[i].T_b) THEN components[i].C_f
             ELSE components[i].C_p)])

\* a variant of ColdCrosses that counts a threshold on the inlet or the outlet:
\* T_in_cold <= T_b <= T_out_cold
ColdCrossesInclusive(state, c) ==
    ~RGt(state.T_in_cold, c.T_b) /\ ~RLt(state.T_out_cold, c.T_b)

\* T_in_cold < T_b < T_out_cold
ColdCrosses(state, c) == RLt(state.T_in_cold, c.T_b) /\ RGt(state.T_out_cold, c.T_b)

\* T_in_hot > T_b > T_out_hot
HotCrosses(state, c) == RGt(state.T_in_hot, c.T_b) /\ RLt(state.T_out_hot, c.T_b)

----------------------------------------------------------------------------
(* pamQ, pamTout                                                           *)

\* state.countCold, state.countHot when both lists are non-empty
count_components(state, cold_components, hot_components) ==
    IF cold_components /= <<>> /\ hot_components /= <<>>
    THEN [state EXCEPT !.countCold = Len(cold_components),
                       !.countHot = Len(hot_components)]
    ELSE state

\* W_cold of pamQ, set when Q is the only unknown
pamQ_W_cold(state, cold_components) ==
    IF /\ RNonZero(state.T_in_cold) /\ RNonZero(state.T_out_cold)
       /\ RNonZero(state.T_in_hot) /\ RNonZero(state.T_out_hot)
       /\ RNonZero(state.g_cold) /\ state.Q = Zero
    THEN [state EXCEPT !.W_cold =
             RMul(state.g_cold,
                  _capacity_from_components(cold_components, state.T_in_cold))]
    ELSE state

pamQ_Q(state) ==
    IF RNonZero(state.W_cold)
    THEN [state EXCEPT !.Q =
             Round(RMul(RSub(state.T_in_hot, state.T_out_hot), state.W_cold), 5)]
    ELSE state

pamQ(state, cold_components, hot_components) ==
    pamQ_Q(pamQ_W_cold(count_components(state, cold_components, hot_components),
                       cold_components))

\* W_hot of pamTout, set when T_out_hot is the only unknown
pamTout_W_hot(state, hot_components) ==
    IF /\ RNonZero(state.T_in_cold) /\ RNonZero(state.T_out_cold)
       /\ RNonZero(state.T_in_hot) /\ RNonZero(state.Q)
       /\ RNonZero(state.g_hot) /\ state.T_out_hot = Zero
    THEN [state EXCEPT !.W_hot =
             RMul(state.g_hot,
                  _capacity_from_components(hot_components, state.T_in_hot))]
    ELSE state

pamTout_T_out_hot(state) ==
    IF RNonZero(state.W_hot)
    THEN [state EXCEPT !.T_out_hot =
             Round(RSub(state.T_in_hot, RDiv(state.Q, state.W_hot)), 5)]
    ELSE state

pamTout(state, cold_components, hot_components) ==
    pamTout_T_out_hot(
        pamTout_W_hot(count_components(state, cold_components, hot_components),
                      hot_components))

----------------------------------------------------------------------------
(* Multi-component regime: contact type, sigma and K per contact type.     *)
(* An operator that can raise returns [st |-> state, exc |-> raised].      *)

_get_contact_type(state, cold_components, hot_components) ==
    LET isColdBoiling ==
            \E i \in 1..Len(cold_components) : ColdCrosses(state, cold_components[i])
        isHotCondensing ==
            \E i \in 1..Len(hot_components) : HotCrosses(state, hot_components[i])
    IN  IF ~isHotCondensing /\ ~isColdBoiling THEN "dd"
        ELSE IF ~isHotCondensing /\ isColdBoiling THEN "db"
        ELSE IF isHotCondensing /\ isColdBoiling THEN "cb"
        ELSE "cd"

\* math.log raises ValueError on a non-positive argument; nothing catches it here
_sigma_dd(state) ==
    IF /\ RNonZero(state.W_hot) /\ RNonZero(state.W_cold) /\ RNonZero(state.T_in_hot)
       /\ RNonZero(state.T_in_cold) /\ RNonZero(state.Q)
    THEN LET Th_out == RSub(state.T_in_hot, RDiv(state.Q, state.W_hot))
             Tc_out == RAdd(state.T_in_cold, RDiv(state.Q, state.W_cold))
             argh == RDiv(Th_out, state.T_in_hot)
             argc == RDiv(Tc_out, state.T_in_cold)
         IN  IF RPos(argh) /\ RPos(argc)
             THEN [st |-> [state EXCEPT !.Sigma =
                              Round(RAdd(RMul(state.W_hot, Ln(argh)),
                                         RMul(state.W_cold, Ln(argc))), 5)],
                   exc |-> FALSE]
             ELSE [st |-> state, exc |-> TRUE]
    ELSE [st |-> state, exc |-> FALSE]

_k_dd(state) ==
    IF /\ RNonZero(state.A) /\ RNonZero(state.W_hot) /\ RNonZero(state.W_cold)
       /\ RNonZero(state.T_in_hot) /\ RNonZero(state.T_in_cold) /\ RNonZero(state.Q)
    THEN LET Th_out == RSub(state.T_in_hot, RDiv(state.Q, state.W_hot))
             Tc_out == RAdd(state.T_in_cold, RDiv(state.Q, state.W_cold))
             numerator == RSub(Th_out, Tc_out)
             denominator == RSub(state.T_in_hot, state.T_in_cold)
         IN  IF RNonZero(denominator) /\ RNonZero(state.A) /\ RPos(numerator)
                \* a negative denominator: math.log raises, the try swallows it
                /\ RPos(RDiv(numerator, denominator))
             THEN [state EXCEPT !.K =
                      Round(RMul(RDiv(Num(1), state.A),
                                 Ln(RDiv(numerator, denominator))), 5)]
             ELSE state
    ELSE state

\* the cold components with T_in_cold < T_b < T_out_cold, in order
ColdCrossing(state, components) ==
    SelectSeq(components, LAMBDA c : ColdCrosses(state, c))

\* the hot components with T_in_hot > T_b > T_out_hot, in order
HotCrossing(state, components) ==
    SelectSeq(components, LAMBDA c : HotCrosses(state, c))

\* sum of g * Share * r_f / T_b over the crossing components with T_b /= 0
LatentSum(g, crossing) ==
    LET sel == SelectSeq(crossing, LAMBDA c : RNonZero(c.T_b))
    IN  SumSeq([i \in 1..Len(sel) |->
                   RDiv(RMul(RMul(g, sel[i].Share), sel[i].r_f), sel[i].T_b)])

\* [c.T_b for c in components if c crosses]
CrossingTb(crossing) == [i \in 1..Len(crossing) |-> crossing[i].T_b]

\* sum(cand) / len(cand)
Mean(cand) == RDiv(SumSeq(cand), Num(Len(cand)))

_sigma_db(state, cold_components) ==
    LET acc0 == LatentSum(state.g_cold, ColdCrossing(state, cold_components))
        Th_out == IF RNonZero(state.Q) /\ RNonZero(state.W_hot)
                  THEN RSub(state.T_in_hot, RDiv(state.Q, state.W_hot))
                  ELSE state.T_out_hot
        acc == IF /\ RNonZero(state.W_hot) /\ RNonZero(state.T_in_hot)
                  /\ RNonZero(Th_out) /\ RPos(Th_out)
                  \* T_in_hot < 0: math.log raises, the try swallows it
                  /\ RPos(RDiv(Th_out, state.T_in_hot))
               THEN RAdd(acc0, RMul(state.W_hot, Ln(RDiv(Th_out, state.T_in_hot))))
               ELSE acc0
    IN  [state EXCEPT !.Sigma = Round(acc, 5)]

_k_db(state, cold_components) ==
    LET cand == CrossingTb(ColdCrossing(state, cold_components))
    IN  IF Len(cand) > 0 /\ RNonZero(state.T_in_hot)
           /\ RNonZero(RSub(state.T_in_hot, Mean(cand)))
        THEN [state EXCEPT !.K = Round(RDiv(state.Q, RSub(state.T_in_hot, Mean(cand))), 5)]
        ELSE state

\* a variant of _sigma_cb that adds the hot latent sum instead of subtracting it
_sigma_cb_added(state, cold_components, hot_components) ==
    [state EXCEPT !.Sigma =
        Round(RAdd(LatentSum(state.g_cold, ColdCrossing(state, cold_components)),
                   LatentSum(state.g_hot, HotCrossing(state, hot_components))), 5)]

_sigma_cb(state, cold_components, hot_components) ==
    LET accc == LatentSum(state.g_cold, ColdCrossing(state, cold_components))
        acch == LatentSum(state.g_hot, HotCrossing(state, hot_components))
    IN  [state EXCEPT !.Sigma = Round(RSub(accc, acch), 5)]

_k_cb(state, cold_components, hot_components) ==
    LET cold_tb == CrossingTb(ColdCrossing(state, cold_components))
        hot_tb  == CrossingTb(HotCrossing(state, hot_components))
    IN  IF Len(cold_tb) > 0 /\ Len(hot_tb) > 0 /\ RNonZero(RSub(Mean(hot_tb), Mean(cold_tb)))
        THEN [state EXCEPT !.K = Round(RDiv(state.Q, RSub(Mean(hot_tb), Mean(cold_tb))), 5)]
        ELSE state

_sigma_cd(state, hot_components) ==
    LET acc0 == RNeg(LatentSum(state.g_hot, HotCrossing(state, hot_components)))
        Tc_out == IF RNonZero(state.Q) /\ RNonZero(state.W_cold)
                  THEN RAdd(state.T_in_cold, RDiv(state.Q, state.W_cold))
                  ELSE state.T_out_cold
        acc == IF /\ RNonZero(state.W_cold) /\ RNonZero(state.T_in_cold)
                  /\ RNonZero(Tc_out) /\ RPos(Tc_out)
                  /\ RPos(RDiv(Tc_out, state.T_in_cold))
               THEN RAdd(acc0, RMul(state.W_cold, Ln(RDiv(Tc_out, state.T_in_cold))))
               ELSE acc0
    IN  [state EXCEPT !.Sigma = Round(acc, 5)]

_k_cd(state, hot_components) ==
    LET cand == CrossingTb(HotCrossing(state, hot_components))
    IN  IF Len(cand) > 0 /\ RNonZero(RSub(Mean(cand), state.T_in_cold))
        THEN [state EXCEPT !.K = Round(RDiv(state.Q, RSub(Mean(cand), state.T_in_cold)), 5)]
        ELSE state

----------------------------------------------------------------------------
(* Single-component regime: the five schema solvers.                       *)

\* a variant of _schema1 that keeps one decimal of K and of Q
_schema1_coarse(state) ==
    LET delta == RSub(state.T_out_hot, state.T_out_cold)
    IN  IF RNonZero(delta)
        THEN IF RPos(state.Q) /\ state.K = Zero
             THEN [state EXCEPT !.K = Round(RDiv(state.Q, delta), 1)]
             ELSE IF RPos(state.K) /\ state.Q = Zero
             THEN [state EXCEPT !.Q = Round(RMul(state.K, delta), 1)]
             ELSE state
        ELSE state

_schema1(state) ==
    LET delta == RSub(state.T_out_hot, state.T_out_cold)
    IN  IF RNonZero(delta)
        THEN IF RPos(state.Q) /\ state.K = Zero
             THEN [state EXCEPT !.K = Round(RDiv(state.Q, delta), 5)]
             ELSE IF RPos(state.K) /\ state.Q = Zero
             THEN [state EXCEPT !.Q = Round(RMul(state.K, delta), 5)]
             ELSE state
        ELSE state

\* a variant of _schema2 that takes the logarithm of the absolute value of its
\* argument instead of skipping a non-positive one
_schema2_abs(state) ==
    LET dTin == RSub(state.T_in_hot, state.T_in_cold)
        denom == RSub(dTin, RMul(state.B, state.Q))
        term == RSub(Num(1), Exp(RNeg(RMul(state.K, state.B))))
    IN  IF RNonZero(state.B)
        THEN IF RPos(state.Q) /\ state.K = Zero
             THEN IF RNonZero(denom) /\ RNonZero(dTin)
                  THEN [state EXCEPT !.K =
                           Round(RMul(RDiv(Num(1), state.B),
                                      Ln(IF RPos(RDiv(dTin, denom)) THEN RDiv(dTin, denom)
                                         ELSE RNeg(RDiv(dTin, denom)))), 5)]
                  ELSE state
             ELSE IF RPos(state.K) /\ state.Q = Zero
             THEN [state EXCEPT !.Q =
                      Round(RMul(RMul(RDiv(Num(1), state.B), dTin), term), 5)]
             ELSE state
        ELSE state

_schema2(state) ==
    LET dTin == RSub(state.T_in_hot, state.T_in_cold)
        denom == RSub(dTin, RMul(state.B, state.Q))
        term == RSub(Num(1), Exp(RNeg(RMul(state.K, state.B))))
    IN  IF RNonZero(state.B)
        THEN IF RPos(state.Q) /\ state.K = Zero
             THEN IF RNonZero(denom) /\ RPos(RDiv(dTin, denom))
                  THEN [state EXCEPT !.K =
                           Round(RMul(RDiv(Num(1), state.B), Ln(RDiv(dTin, denom))), 5)]
                  ELSE state
             ELSE IF RPos(state.K) /\ state.Q = Zero
             THEN [state EXCEPT !.Q =
                      Round(RMul(RMul(RDiv(Num(1), state.B), dTin), term), 5)]
             ELSE state
        ELSE state

_schema3(state) ==
    LET num == RSub(state.T_in_hot, state.T_out_cold)
        denom == RSub(RSub(state.T_in_hot, state.T_out_hot), RDiv(state.Q, state.W_hot))
        term == RSub(Num(1), Exp(RNeg(RDiv(state.K, state.W_hot))))
    IN  IF RNonZero(state.W_hot)
        THEN IF RPos(state.Q) /\ state.K = Zero
             THEN IF RNonZero(denom) /\ RPos(RDiv(num, denom))
                  THEN [state EXCEPT !.K =
                           Round(RMul(state.W_hot, Ln(RDiv(num, denom))), 5)]
                  ELSE state
             ELSE IF RPos(state.K) /\ state.Q = Zero
             THEN [state EXCEPT !.Q = Round(RMul(RMul(state.W_cold, num), term), 5)]
             ELSE state
        ELSE state

_schema4(state) ==
    LET num == RSub(state.T_out_hot, state.T_in_cold)
        denom == RSub(num, RDiv(state.Q, state.W_cold))
        term == RSub(Num(1), Exp(RNeg(RDiv(state.K, state.W_cold))))
    IN  IF RNonZero(state.W_cold)
        THEN IF RPos(state.Q) /\ state.K = Zero
             THEN IF RNonZero(denom) /\ RPos(RDiv(num, denom))
                  THEN [state EXCEPT !.K =
                           Round(RMul(state.W_cold, Ln(RDiv(num, denom))), 5)]
                  ELSE state
             ELSE IF RPos(state.K) /\ state.Q = Zero
             THEN [state EXCEPT !.Q = Round(RMul(RMul(state.W_cold, num), term), 5)]
             ELSE state
        ELSE state

\* K from Q under Schema5 by the logarithmic relation
_schema5_log_K(state) ==
    LET denom == RSub(state.T_out_hot, state.T_in_cold)
    IN  IF RNonZero(denom)
           /\ RPos(RDiv(RAdd(denom, RMul(state.A, state.Q)), denom))
        THEN [state EXCEPT !.K =
                 Round(RMul(RDiv(Num(1), state.A),
                            Ln(RDiv(RAdd(denom, RMul(state.A, state.Q)), denom))), 5)]
        ELSE state

\* K from Q under Schema5 when W_cold == W_hot and K is still 0
_schema5_equal_K(state) ==
    IF state.W_cold = state.W_hot /\ RNonZero(state.W_cold) /\ state.K = Zero
    THEN IF RNonZero(RSub(RSub(state.T_in_hot, state.T_in_cold),
                          RDiv(state.Q, state.W_cold)))
         THEN [state EXCEPT !.W = state.W_cold,
                            !.K = Round(RDiv(state.Q,
                                             RSub(RSub(state.T_in_hot, state.T_in_cold),
                                                  RDiv(state.Q, state.W_cold))), 5)]
         ELSE [state EXCEPT !.W = state.W_cold]
    ELSE state

\* K from Q under Schema5 (the branch Q > 0 and K == 0)
_schema5_K(state) == _schema5_equal_K(_schema5_log_K(state))

\* Q from K under Schema5 by the exponential relation
_schema5_exp_Q(state) ==
    [state EXCEPT !.Q =
        Round(RMul(RMul(RDiv(Num(1), state.A),
                        RSub(state.T_out_hot, state.T_in_cold)),
                   RSub(Exp(RMul(state.K, state.A)), Num(1))), 5)]

\* Q from K under Schema5 when W_cold == W_hot; W + K == 0 raises
\* ZeroDivisionError inside the try, after W and the first Q were assigned
_schema5_equal_Q(state) ==
    IF state.W_cold = state.W_hot /\ RNonZero(state.W_cold)
    THEN IF RNonZero(RAdd(state.W_cold, state.K))
         THEN [state EXCEPT !.W = state.W_cold,
                            !.Q = Round(RDiv(RMul(RMul(state.W_cold,
                                                       RSub(state.T_in_hot,
                                                            state.T_in_cold)),
                                                  state.K),
                                             RAdd(state.W_cold, state.K)), 5)]
         ELSE [state EXCEPT !.W = state.W_cold]
    ELSE state

\* Q from K under Schema5 (the branch K > 0 and Q == 0)
_schema5_Q(state) == _schema5_equal_Q(_schema5_exp_Q(state))

_schema5(state) ==
    IF RNonZero(state.A)
    THEN IF RPos(state.Q) /\ state.K = Zero THEN _schema5_K(state)
         ELSE IF RPos(state.K) /\ state.Q = Zero THEN _schema5_Q(state)
         ELSE state
    ELSE state

\* a variant of the dispatch whose solvers solve for K whatever K holds on entry
schema_dispatch_resolving(state) ==
    IF state.schema = "Schema2" THEN _schema2([state EXCEPT !.K = Zero])
    ELSE IF state.schema = "Schema3" THEN _schema3([state EXCEPT !.K = Zero])
    ELSE IF state.schema = "Schema4" THEN _schema4([state EXCEPT !.K = Zero])
    ELSE IF state.schema = "Schema5" THEN _schema5([state EXCEPT !.K = Zero])
    ELSE _schema1([state EXCEPT !.K = Zero])

\* a variant of the dispatch without the default: a selector outside the map
\* runs no solver
schema_dispatch_strict(state) ==
    IF state.schema = "Schema1" THEN _schema1(state)
    ELSE IF state.schema = "Schema2" THEN _schema2(state)
    ELSE IF state.schema = "Schema3" THEN _schema3(state)
    ELSE IF state.schema = "Schema4" THEN _schema4(state)
    ELSE IF state.schema = "Schema5" THEN _schema5(state)
    ELSE state

\* schema_map.get(state.schema, _schema1)
schema_dispatch(state) ==
    IF state.schema = "Schema2" THEN _schema2(state)
    ELSE IF state.schema = "Schema3" THEN _schema3(state)
    ELSE IF state.schema = "Schema4" THEN _schema4(state)
    ELSE IF state.schema = "Schema5" THEN _schema5(state)
    ELSE _schema1(state)

\* a variant of single_sigma that leaves out the cold stream's term
single_sigma_hot_only(state) ==
    IF /\ RNonZero(state.W_hot) /\ RNonZero(state.W_cold)
       /\ RNonZero(state.T_out_hot) /\ RNonZero(state.T_in_hot)
       /\ RNonZero(state.T_out_cold) /\ RNonZero(state.T_in_cold)
       /\ RPos(RDiv(state.T_out_hot, state.T_in_hot))
       /\ RPos(RDiv(state.T_out_cold, state.T_in_cold))
    THEN [state EXCEPT !.Sigma =
             Round(RMul(state.W_hot, Ln(RDiv(state.T_out_hot, state.T_in_hot))), 5)]
    ELSE state

\* a variant of single_sigma that recomputes sigma only when the schema step
\* left K at 0
single_sigma_unless_K(state) ==
    IF /\ state.K = Zero
       /\ RNonZero(state.W_hot) /\ RNonZero(state.W_cold)
       /\ RNonZero(state.T_out_hot) /\ RNonZero(state.T_in_hot)
       /\ RNonZero(state.T_out_cold) /\ RNonZero(state.T_in_cold)
       /\ RPos(RDiv(state.T_out_hot, state.T_in_hot))
       /\ RPos(RDiv(state.T_out_cold, state.T_in_cold))
    THEN [state EXCEPT !.Sigma =
             Round(RAdd(RMul(state.W_hot, Ln(RDiv(state.T_out_hot, state.T_in_hot))),
                        RMul(state.W_cold, Ln(RDiv(state.T_out_cold, state.T_in_cold)))), 5)]
    ELSE state

\* sigma of the single-component regime, recomputed after the schema step
single_sigma(state) ==
    IF /\ RNonZero(state.W_hot) /\ RNonZero(state.W_cold)
       /\ RNonZero(state.T_out_hot) /\ RNonZero(state.T_in_hot)
       /\ RNonZero(state.T_out_cold) /\ RNonZero(state.T_in_cold)
       \* a non-positive logarithm argument raises inside the try: Sigma is kept
       /\ RPos(RDiv(state.T_out_hot, state.T_in_hot))
       /\ RPos(RDiv(state.T_out_cold, state.T_in_cold))
    THEN [state EXCEPT !.Sigma =
             Round(RAdd(RMul(state.W_hot, Ln(RDiv(state.T_out_hot, state.T_in_hot))),
                        RMul(state.W_cold, Ln(RDiv(state.T_out_cold, state.T_in_cold)))), 5)]
    ELSE state

\* state.W_cold from a non-empty cold list
set_W_cold(state, cold_components) ==
    IF Len(cold_components) > 0
    THEN [state EXCEPT !.W_cold =
             RMul(state.g_cold,
                  _capacity_from_components(cold_components, state.T_in_cold))]
    ELSE state

\* state.W_hot from a non-empty hot list
set_W_hot(state, hot_components) ==
    IF Len(hot_components) > 0
    THEN [state EXCEPT !.W_hot =
             RMul(state.g_hot,
                  _capacity_from_components(hot_components, state.T_in_hot))]
    ELSE state

\* the auxiliary coefficients A, B
set_A_B(state) ==
    IF RNonZero(state.W_cold) /\ RNonZero(state.W_hot)
    THEN [state EXCEPT
             !.A = RDiv(RSub(state.W_cold, state.W_hot),
                        RMul(state.W_hot, state.W_cold)),
             !.B = RDiv(RAdd(state.W_cold, state.W_hot),
                        RMul(state.W_hot, state.W_cold))]
    ELSE state

\* capacity rates and the auxiliary coefficients A, B
full_capacities(state, cold_components, hot_components) ==
    set_A_B(set_W_hot(set_W_cold(state, cold_components), hot_components))

\* a variant of is_multicomponent that asks for two components on both sides
is_multicomponent_both(cold_components, hot_components) ==
    Len(cold_components) > 1 /\ Len(hot_components) > 1

is_multicomponent(cold_components, hot_components) ==
    Len(cold_components) > 1 \/ Len(hot_components) > 1

\* _k_dd after _sigma_dd, unless _sigma_dd raised
k_dd_after(r) == IF r.exc THEN r ELSE [st |-> _k_dd(r.st), exc |-> FALSE]

\* the sigma and K formulas of the state's contact type
contact_dispatch(state, cold_components, hot_components) ==
    IF state.contact_type = "dd"
    THEN k_dd_after(_sigma_dd(state))
    ELSE IF state.contact_type = "db"
    THEN [st |-> _k_db(_sigma_db(state, cold_components), cold_components),
          exc |-> FALSE]
    ELSE IF state.contact_type = "cb"
    THEN [st |-> _k_cb(_sigma_cb(state, cold_components, hot_components),
                       cold_components, hot_components), exc |-> FALSE]
    ELSE [st |-> _k_cd(_sigma_cd(state, hot_components), hot_components),
          exc |-> FALSE]

\* the multi-component path of full
full_multi(state, cold_components, hot_components) ==
    contact_dispatch(
        [state EXCEPT !.contact_type =
            _get_contact_type(state, cold_components, hot_components)],
        cold_components, hot_components)

\* full after the capacities: the regime of the two lists
full_regime(state, cold_components, hot_components) ==
    IF ~is_multicomponent(cold_components, hot_components)
    THEN [st |-> single_sigma(schema_dispatch(state)), exc |-> FALSE]
    ELSE full_multi(state, cold_components, hot_components)

\* full(state, cold_components, hot_components): [st |-> the state, exc |-> it raised]
full(state, cold_components, hot_components) ==
    full_regime(full_capacities(state, cold_components, hot_components),
                cold_components, hot_components)

----------------------------------------------------------------------------
(* calculate(cold, hot, cold_mix, hot_mix, q, schema)                      *)

\* d[key] = v on a dict
DictSet(d, key, v) == [x \in (DOMAIN d) \cup {key} |-> IF x = key THEN v ELSE d[x]]

\* a variant of weighted_Cf that gives an empty mixture the specific heat 1.0
weighted_Cf_unit(mix, t_ref) ==
    IF Len(mix) = 0 THEN Num(1)
    ELSE SumSeq([i \in 1..Len(mix) |->
             RMul(to_float(DictGet(mix[i], "share", Zero)),
                  IF RLt(t_ref, to_float(DictGet(mix[i], "tb", Zero)))
                  THEN to_float(DictGet(mix[i], "cf", Zero))
                  ELSE to_float(DictGet(mix[i], "cp", Zero)))])

\* a variant of weighted_Cf that still takes the liquid heat at t_ref = tb
weighted_Cf_inclusive(mix, t_ref) ==
    SumSeq([i \in 1..Len(mix) |->
        RMul(to_float(DictGet(mix[i], "share", Zero)),
             IF ~RGt(t_ref, to_float(DictGet(mix[i], "tb", Zero)))
             THEN to_float(DictGet(mix[i], "cf", Zero))
             ELSE to_float(DictGet(mix[i], "cp", Zero)))])

weighted_Cf(mix, t_ref) ==
    SumSeq([i \in 1..Len(mix) |->
        LET share == to_float(DictGet(mix[i], "share", Zero))
            tb == to_float(DictGet(mix[i], "tb", Zero))
            cf == to_float(DictGet(mix[i], "cf", Zero))
            cp == to_float(DictGet(mix[i], "cp", Zero))
        IN  RMul(share, IF RLt(t_ref, tb) THEN cf ELSE cp)])

to_components(mix) ==
    [i \in 1..Len(mix) |->
        Component(to_float(DictGet(mix[i], "share", Zero)),
                  to_float(DictGet(mix[i], "tb", Zero)),
                  to_float(DictGet(mix[i], "cf", Zero)),
                  to_float(DictGet(mix[i], "cp", Zero)),
                  to_float(DictGet(mix[i], "rf", Zero)))]

\* the record calculate starts from
out_init == [sigma |-> Zero, k |-> Zero, k_source |-> "", contact_type |-> ""]

\* a variant of step 1) that takes Q from the cold stream's temperature rise
infer_q_cold_rise(out, q, t_in_cold, t_out_cold, t_in_hot, t_out_hot, g_cold, Cf_cold) ==
    IF /\ q = Zero
       /\ RNonZero(t_in_cold) /\ RNonZero(t_out_cold)
       /\ RNonZero(t_in_hot) /\ RNonZero(t_out_hot) /\ RPos(g_cold)
       /\ RPos(Cf_cold)
    THEN LET q_est == RMul(RSub(t_out_cold, t_in_cold), RMul(g_cold, Cf_cold))
         IN  [out |-> DictSet(out, "q", Round(q_est, 6)), q |-> q_est]
    ELSE [out |-> out, q |-> q]

\* step 1) of calculate: Q from the temperatures; [out, q]
infer_q(out, q, t_in_cold, t_out_cold, t_in_hot, t_out_hot, g_cold, Cf_cold) ==
    IF /\ q = Zero
       /\ RNonZero(t_in_cold) /\ RNonZero(t_out_cold)
       /\ RNonZero(t_in_hot) /\ RNonZero(t_out_hot) /\ RPos(g_cold)
       /\ RPos(Cf_cold)
    THEN LET W_cold == RMul(g_cold, Cf_cold)
             q_est == RMul(RSub(t_in_hot, t_out_hot), W_cold)
         IN  [out |-> DictSet(out, "q", Round(q_est, 6)), q |-> q_est]
    ELSE [out |-> out, q |-> q]

\* a variant of step 2) that also replaces a hot outlet the caller supplied
infer_t_out_hot_always(out, q, t_in_hot, t_out_hot, g_hot, Cf_hot) ==
    IF /\ RNonZero(q) /\ RNonZero(t_in_hot) /\ RPos(g_hot)
       /\ RPos(Cf_hot) /\ RPos(RMul(g_hot, Cf_hot))
    THEN LET t_out_plus == RSub(t_in_hot, RDiv(q, RMul(g_hot, Cf_hot)))
         IN  [out |-> DictSet(out, "t_out_plus", Round(t_out_plus, 6)),
              t_out_hot |-> t_out_plus]
    ELSE [out |-> out, t_out_hot |-> t_out_hot]

\* step 2) of calculate: the hot outlet temperature from Q; [out, t_out_hot]
infer_t_out_hot(out, q, t_in_hot, t_out_hot, g_hot, Cf_hot) ==
    IF /\ RNonZero(q) /\ t_out_hot = Zero /\ RNonZero(t_in_hot) /\ RPos(g_hot)
       /\ RPos(Cf_hot) /\ RPos(RMul(g_hot, Cf_hot))
    THEN LET t_out_plus == RSub(t_in_hot, RDiv(q, RMul(g_hot, Cf_hot)))
         IN  [out |-> DictSet(out, "t_out_plus", Round(t_out_plus, 6)),
              t_out_hot |-> t_out_plus]
    ELSE [out |-> out, t_out_hot |-> t_out_hot]

\* if fs.Q and "q" not in out: out["q"] = round(fs.Q, 6)
sync_q(out, fs) ==
    IF RNonZero(fs.Q) /\ "q" \notin DOMAIN out
    THEN DictSet(out, "q", Round(fs.Q, 6))
    ELSE out

\* a variant of sync_sigma_k that copies K without tagging its provenance
sync_sigma_k_untagged(out, fs) ==
    LET o1 == IF RNonZero(fs.Sigma) THEN DictSet(out, "sigma", fs.Sigma) ELSE out
    IN  IF RNonZero(fs.K) THEN DictSet(o1, "k", fs.K) ELSE o1

\* out["sigma"], out["k"], out["k_source"] from fs
sync_sigma_k(out, fs) ==
    LET o1 == IF RNonZero(fs.Sigma) THEN DictSet(out, "sigma", fs.Sigma) ELSE out
    IN  IF RNonZero(fs.K)
        THEN DictSet(DictSet(o1, "k", fs.K), "k_source", "schema/contact")
        ELSE o1

\* K from the difference of the mean temperatures, when sigma is known and K is not
mean_delta_fallback(out, fs, q) ==
    LET q_used == IF RNonZero(fs.Q) THEN fs.Q ELSE q
        hasTh == RNonZero(fs.T_in_hot) /\ RNonZero(fs.T_out_hot)
        hasTc == RNonZero(fs.T_in_cold) /\ RNonZero(fs.T_out_cold)
        Th_mean == RMul(Dec(5, 1), RAdd(fs.T_in_hot, fs.T_out_hot))
        Tc_mean == RMul(Dec(5, 1), RAdd(fs.T_in_cold, fs.T_out_cold))
        delta_mean == RSub(Th_mean, Tc_mean)
    IN  IF /\ fs.K = Zero /\ RNonZero(fs.Sigma) /\ RNonZero(q_used)
           /\ hasTh /\ hasTc /\ RNonZero(Th_mean) /\ RNonZero(Tc_mean)
           /\ RPos(delta_mean)
        THEN DictSet(DictSet(out, "k", Round(RDiv(q_used, delta_mean), 6)),
                     "k_source", "mean_delta")
        ELSE out

\* a variant of lmtd_of that takes the arithmetic mean of the two differences
arithmetic_mean_of(dT1, dT2) ==
    IF RPos(dT1) /\ RPos(dT2) THEN RMul(Dec(5, 1), RAdd(dT1, dT2)) ELSE Zero

\* the log-mean temperature difference of the LMTD fallback; 0.0 when undefined
lmtd_of(dT1, dT2) ==
    IF RPos(dT1) /\ RPos(dT2) /\ dT1 /= dT2
    THEN RDiv(RSub(dT1, dT2), Ln(RDiv(dT1, dT2)))
    ELSE IF dT1 = dT2 /\ RPos(dT1) THEN dT1
    ELSE Zero

\* out["k"] = Q / LMTD, for the lmtd the fallback computed
lmtd_k(out, fs, q, lmtd) ==
    IF RPos(lmtd)
    THEN DictSet(DictSet(out, "k",
                         Round(RDiv(IF RNonZero(fs.Q) THEN fs.Q ELSE q, lmtd), 6)),
                 "k_source", "lmtd")
    ELSE out

\* K = Q / LMTD when the schema/contact formulas left fs.K at 0
lmtd_fallback(out, fs, q, t_in_hot, t_out_hot, t_in_cold, t_out_cold) ==
    IF /\ fs.K = Zero /\ (RNonZero(q) \/ RNonZero(fs.Q))
       /\ RNonZero(t_in_hot) /\ RNonZero(t_out_hot)
       /\ RNonZero(t_in_cold) /\ RNonZero(t_out_cold)
    THEN lmtd_k(out, fs, q,
                lmtd_of(RSub(t_in_hot, t_out_cold), RSub(t_out_hot, t_in_cold)))
    ELSE out

\* if getattr(fs, "contact_type", None): out["contact_type"] = str(fs.contact_type)
sync_contact_type(out, fs) ==
    IF fs.contact_type /= None /\ fs.contact_type /= ""
    THEN DictSet(out, "contact_type", fs.contact_type)
    ELSE out

\* what follows full() in the try: the syncs and the two fallbacks
after_full(out, fs, q, t_in_cold, t_out_cold, t_in_hot, t_out_hot) ==
    lmtd_fallback(
        sync_contact_type(
            mean_delta_fallback(sync_sigma_k(sync_q(out, fs), fs), fs, q), fs),
        fs, q, t_in_hot, t_out_hot, t_in_cold, t_out_cold)

\* the rest of the try for the result r of full(): nothing runs after a raise
unless_raised(out, r, q, t_in_cold, t_out_cold, t_in_hot, t_out_hot) ==
    IF r.exc THEN [out |-> out, fs |-> r.st, exc |-> TRUE]
    ELSE [out |-> after_full(out, r.st, q, t_in_cold, t_out_cold, t_in_hot, t_out_hot),
          fs |-> r.st, exc |-> FALSE]

\* step 3) of calculate, the body of its try: [out, fs, exc]
sigma_and_k(out, q, t_in_cold, t_out_cold, t_in_hot, t_out_hot, g_cold, g_hot, cold_mix, hot_mix, schema) ==
    unless_raised(
        out,
        full(FlowState(t_in_cold, t_out_cold, t_in_hot, t_out_hot, g_cold, g_hot,
                       q, schema),
             to_components(cold_mix), to_components(hot_mix)),
        q, t_in_cold, t_out_cold, t_in_hot, t_out_hot)

\* a variant of the try/except that lets the exception reach the caller
propagate_sigma_and_k(r) == [out |-> r.out, fs |-> r.fs, caught |-> FALSE, raised |-> r.exc]

\* the try/except around step 3): the exception is swallowed
\* [out, fs, caught |-> an exception was swallowed, raised |-> one reached the caller]
try_sigma_and_k(r) == [out |-> r.out, fs |-> r.fs, caught |-> r.exc, raised |-> FALSE]

\* calculate from step 3) on, for the result s2 of step 2)
calculate_step3(s2, q, t_in_cold, t_out_cold, t_in_hot, g_cold, g_hot, cold_mix, hot_mix, schema) ==
    try_sigma_and_k(
        sigma_and_k(s2.out, q, t_in_cold, t_out_cold, t_in_hot, s2.t_out_hot,
                    g_cold, g_hot, cold_mix, hot_mix, schema))

\* a variant of step 2) in which the regime dispatch reads the hot outlet the
\* caller supplied: the inferred one is only reported
calculate_step2_supplied(s1, t_in_cold, t_out_cold, t_in_hot, t_out_hot, g_cold, g_hot, cold_mix, hot_mix, schema) ==
    calculate_step3(
        [out |-> infer_t_out_hot(s1.out, s1.q, t_in_hot, t_out_hot, g_hot,
                                 weighted_Cf(hot_mix, t_in_hot)).out,
         t_out_hot |-> t_out_hot],
        s1.q, t_in_cold, t_out_cold, t_in_hot, g_cold, g_hot, cold_mix, hot_mix,
        schema)

\* calculate from step 2) on, for the result s1 of step 1)
calculate_step2(s1, t_in_cold, t_out_cold, t_in_hot, t_out_hot, g_cold, g_hot, cold_mix, hot_mix, schema) ==
    calculate_step3(
        infer_t_out_hot(s1.out, s1.q, t_in_hot, t_out_hot, g_hot,
                        weighted_Cf(hot_mix, t_in_hot)),
        s1.q, t_in_cold, t_out_cold, t_in_hot, g_cold, g_hot, cold_mix, hot_mix,
        schema)

\* calculate on its safe inputs
calculate_step1(t_in_cold, t_out_cold, t_in_hot, t_out_hot, g_cold, g_hot, cold_mix, hot_mix, q, schema) ==
    calculate_step2(
        infer_q(out_init, q, t_in_cold, t_out_cold, t_in_hot, t_out_hot, g_cold,
                weighted_Cf(cold_mix, t_in_cold)),
        t_in_cold, t_out_cold, t_in_hot, t_out_hot, g_cold, g_hot, cold_mix, hot_mix,
        schema)

calculate(cold, hot, cold_mix, hot_mix, q_hint, schema) ==
    calculate_step1(to_float(DictGet(cold, "t_in", Zero)),
                    to_float(DictGet(cold, "t_out", Zero)),
                    to_float(DictGet(hot, "t_in", Zero)),
                    to_float(DictGet(hot, "t_out", Zero)),
                    to_float(DictGet(cold, "m", Zero)),
                    to_float(DictGet(hot, "m", Zero)),
                    cold_mix, hot_mix, q_hint, schema)

----------------------------------------------------------------------------
(* The callers' inputs.                                                    *)

\* longest mixture (number of components per side)
MaxComponents == 2

\* mass flow rates, kg/s (0: absent)
Flows == {0, 1, 2}

\* the component of src/tests/test_schema_compare.py (no "rf" key)
Water == [share |-> Num(1), tb |-> Num(373), cf |-> Dec(42, 1), cp |-> Dec(42, 1)]

\* a component boiling between the cold temperatures 290 K and 300 K
Light == [share |-> Num(1), tb |-> Num(295), cf |-> Num(2), cp |-> Num(1),
          rf |-> Num(590)]

\* a component condensing between the hot temperatures 350 K and 330 K
Mid == [share |-> Num(1), tb |-> Num(340), cf |-> Num(3), cp |-> Dec(15, 1),
        rf |-> Num(680)]

Recipes == {<<Water, Light, Mid>>, <<Mid, Water, Light>>}

\* the first n components of a recipe, in equal shares
Mix(recipe, n) == [i \in 1..n |-> [recipe[i] EXCEPT !.share = R(1, n)]]

Mixes == {Mix(r, n) : r \in Recipes, n \in 0..MaxComponents}

Schemas == {"Schema1", "Schema2", "Schema3", "Schema4", "Schema5"}

\* schema selectors a caller can pass: the five identifiers and a foreign one
SchemaArgs == Schemas \cup {"Schema9"}

Stream(t_in, t_out, m) == [t_in |-> t_in, t_out |-> t_out, m |-> m]

ColdStreams == {Stream(Num(ti), Num(to), Num(m)) :
                   ti \in {0, 290}, to \in {0, 300}, m \in Flows}

HotStreams == {Stream(Num(ti), Num(to), Num(m)) :
                  ti \in {0, 350}, to \in {0, 330, 340}, m \in Flows}

\* q hints: absent, the duty of the reference scenario, a duty too large for
\* the streams, a duty so small that Q / dT rounds to 0.0
QHints == {Num(0), Num(84), Num(2000), Dec(1, 5)}

IsMulti(cold_mix, hot_mix) == Len(cold_mix) > 1 \/ Len(hot_mix) > 1

\* the calls given the smallest hint: single-component calls under Schema1,
\* whose quotients of differences of order 1 keep the digits of this
\* arithmetic (a logarithm of 1 + 10^-8 does not)
TinyHintArgs(a) ==
    ~IsMulti(a.cold_mix, a.hot_mix) /\ a.schema \in {"Schema1", "Schema9"}

\* the arguments of one calculate call (the schema selector is varied where
\* the regime reads it)
CalcArgs ==
    {a \in [cold : ColdStreams, hot : HotStreams, cold_mix : Mixes, hot_mix : Mixes,
            q : QHints, schema : SchemaArgs] :
        /\ IsMulti(a.cold_mix, a.hot_mix) => a.schema = "Schema1"
        /\ a.q = Dec(1, 5) => TinyHintArgs(a)}

----------------------------------------------------------------------------
(* The state: a caller, its arguments and what the engine returned.        *)

VARIABLES
    args,      \* the arguments of the current calculate call
    out,       \* the record calculate returned (<<>> before the first return)
    fs,        \* the FlowState of the call (calculate's local fs)
    caught,    \* calculate swallowed an exception of step 3
    raised,    \* the call raised to its caller
    saved,     \* what the caller kept of the first call, for a round trip
    pc         \* the caller's position

vars == <<args, out, fs, caught, raised, saved, pc>>

NoState == FlowState(Zero, Zero, Zero, Zero, Zero, Zero, Zero, "Schema1")

\* a variant of the call in which the q of the previous record survives: an
\* absent q hint is taken from the record the engine returned last
call_calculate_keeping(a) ==
    calculate(a.cold, a.hot, a.cold_mix, a.hot_mix,
              IF a.q = Zero /\ pc /= "start" /\ "q" \in DOMAIN out THEN out["q"] ELSE a.q,
              a.schema)

call_calculate(a) == calculate(a.cold, a.hot, a.cold_mix, a.hot_mix, a.q, a.schema)

Init ==
    /\ args \in CalcArgs
    /\ out = <<>>
    /\ fs = NoState
    /\ caught = FALSE
    /\ raised = FALSE
    /\ saved = <<>>
    /\ pc = "start"

\* ans = calculate(cold, hot, cold_mix, hot_mix, q, schema)
Calculate ==
    /\ pc = "start"
    /\ \E r \in {call_calculate(args)} :
           /\ out' = r.out
           /\ fs' = r.fs
           /\ caught' = r.caught
           /\ raised' = r.raised
    /\ pc' = "returned"
    /\ UNCHANGED <<args, saved>>

\* the caller feeds the returned q back with the hot outlet temperature removed
FeedBack ==
    /\ pc = "returned"
    /\ ~raised
    /\ "q" \in DOMAIN out
    /\ args.q = Zero
    /\ \E r \in {call_calculate([args EXCEPT !.q = out["q"], !.hot.t_out = Zero])} :
           /\ args' = [args EXCEPT !.q = out["q"], !.hot.t_out = Zero]
           /\ out' = r.out
           /\ fs' = r.fs
           /\ caught' = r.caught
           /\ raised' = r.raised
    /\ saved' = [args |-> args, out |-> out]
    /\ pc' = "fedback"

Next == Calculate \/ FeedBack

Spec == Init /\ [][Next]_vars

----------------------------------------------------------------------------
(* Properties of calculate, over Spec.                                     *)

\* a call of calculate has come back
Done == pc \in {"returned", "fedback"}

RAbs(x) == <<Abs(x[1]), x[2]>>

\* |x - y| <= tol
Within(x, y, tol) == ~RGt(RAbs(RSub(x, y)), tol)

\* the effective specific heat of a mixture at a temperature: each share times
\* the liquid heat below the component's threshold, the vapour heat otherwise
RECURSIVE EffectiveHeat(_, _)
EffectiveHeat(mix, t) ==
    IF Len(mix) = 0 THEN Zero
    ELSE RAdd(RMul(Head(mix).share, IF RLt(t, Head(mix).tb) THEN Head(mix).cf
                                    ELSE Head(mix).cp),
              EffectiveHeat(Tail(mix), t))

ColdHeat == EffectiveHeat(args.cold_mix, args.cold.t_in)

HotHeat == EffectiveHeat(args.hot_mix, args.hot.t_in)

RequiredKeys == {"sigma", "k", "k_source", "contact_type"}

\* C1: calculate never raises: for every combination of present and absent
\* temperatures and flow rates, every q hint, every schema selector and every
\* pair of mixtures (empty ones included) the call returns a record that holds
\* sigma, k, k_source and contact_type.
C1_NeverRaises == Done => ~raised /\ RequiredKeys \subseteq DOMAIN out

\* a call in which the solver raised (logarithm of a non-positive ratio) and
\* calculate still returned the full record
C1_SwallowedError ==
    pc = "returned" /\ caught /\ ~raised /\ RequiredKeys \subseteq DOMAIN out

\* the condition of the Q inference: four temperatures, a cold flow and a
\* positive cold specific heat
AllTemperaturesGiven ==
    /\ RNonZero(args.cold.t_in) /\ RNonZero(args.cold.t_out)
    /\ RNonZero(args.hot.t_in) /\ RNonZero(args.hot.t_out)

ColdBalance ==
    RMul(RSub(args.hot.t_in, args.hot.t_out), RMul(args.cold.m, ColdHeat))

QInferable == AllTemperaturesGiven /\ RPos(args.cold.m) /\ RPos(ColdHeat)

QAfterInference == IF args.q = Zero /\ QInferable THEN ColdBalance ELSE args.q

HotOutletInferable ==
    /\ RNonZero(QAfterInference) /\ args.hot.t_out = Zero /\ RNonZero(args.hot.t_in)
    /\ RPos(args.hot.m) /\ RPos(RMul(args.hot.m, HotHeat))

\* C3: the record holds t_out_plus exactly when Q is non-zero after the Q
\* inference, the supplied hot outlet is 0, the hot inlet is non-zero, the hot
\* flow rate is > 0 and W_hot > 0; then t_out_plus = hot inlet - Q / W_hot,
\* rounded to 6 decimals.  A hot outlet the caller supplied is neither
\* returned nor replaced.
C3_HotOutletInference ==
    Done =>
        /\ ("t_out_plus" \in DOMAIN out) <=> HotOutletInferable
        /\ HotOutletInferable =>
               out["t_out_plus"] =
                   Round(RSub(args.hot.t_in,
                              RDiv(QAfterInference, RMul(args.hot.m, HotHeat))), 6)
        /\ RNonZero(args.hot.t_out) =>
               "t_out_plus" \notin DOMAIN out /\ fs.T_out_hot = args.hot.t_out

\* the hint 84 kW with the hot outlet absent gives 350 - 84/4.2 = 330 K
C3_OutletFromHint ==
    /\ pc = "returned" /\ args.q = Num(84) /\ args.hot.t_out = Zero
    /\ "t_out_plus" \in DOMAIN out /\ out["t_out_plus"] = Num(330)

\* C4: the record holds q only when the engine computed Q itself: with a
\* non-zero q hint the returned record has no q key.
C4_HintNotReturned == Done /\ RNonZero(args.q) => "q" \notin DOMAIN out

\* a fully specified single-component call with q hint 0
FullySpecified(a) ==
    /\ RNonZero(a.cold.t_in) /\ RNonZero(a.cold.t_out)
    /\ RNonZero(a.hot.t_in) /\ RNonZero(a.hot.t_out)
    /\ RPos(a.cold.m) /\ RPos(a.hot.m)
    /\ Len(a.cold_mix) = 1 /\ Len(a.hot_mix) = 1
    /\ RPos(EffectiveHeat(a.cold_mix, a.cold.t_in))
    /\ RPos(EffectiveHeat(a.hot_mix, a.hot.t_in))
    /\ a.q = Zero

\* C5: energy-balance round trip: after a fully specified single-component
\* call with q hint 0, calling again with the returned q as hint and the hot
\* outlet set to 0 returns t_out_plus equal to the original hot outlet, within
\* the 6-decimal rounding.
C5_EnergyRoundTrip ==
    pc = "fedback" /\ FullySpecified(saved.args) =>
        /\ "t_out_plus" \in DOMAIN out
        /\ Within(out["t_out_plus"], saved.args.hot.t_out, Dec(1, 6))

EmptyMixtures == Len(args.cold_mix) = 0 /\ Len(args.hot_mix) = 0

\* C7 as stated: with both mixtures empty, for any streams, schema and q hint,
\* calculate does not raise, both capacity rates are 0, no q or t_out_plus is
\* produced, and sigma = 0.0, k = 0.0 and k_source is empty.
C7_ZeroMixtureDefaults ==
    Done /\ EmptyMixtures =>
        /\ ~raised
        /\ fs.W_cold = Zero /\ fs.W_hot = Zero
        /\ "q" \notin DOMAIN out /\ "t_out_plus" \notin DOMAIN out
        /\ out["sigma"] = Zero /\ out["k"] = Zero /\ out["k_source"] = ""

\* C7, amended: with both mixtures empty, for any streams, schema and q hint,
\* calculate does not raise, both capacity rates are 0, no t_out_plus is
\* produced and sigma = 0.0; with q hint 0 the record has no q, k = 0.0 and
\* an empty k_source.
C7_ZeroMixtureSafety ==
    Done /\ EmptyMixtures =>
        /\ ~raised
        /\ fs.W_cold = Zero /\ fs.W_hot = Zero
        /\ "t_out_plus" \notin DOMAIN out
        /\ out["sigma"] = Zero
        /\ args.q = Zero =>
               "q" \notin DOMAIN out /\ out["k"] = Zero /\ out["k_source"] = ""

\* empty mixtures and the hint 84 kW: K comes out of the schema formula
C7_HintedZeroMixture ==
    /\ pc = "returned" /\ EmptyMixtures /\ args.q = Num(84)
    /\ out["sigma"] = Zero /\ fs.W_cold = Zero /\ fs.W_hot = Zero
    /\ out["k_source"] = "schema/contact" /\ RPos(out["k"])

\* the call of src/tests/test_schema_compare.py under schema s
Reference(s) ==
    [cold |-> Stream(Num(290), Num(300), Num(1)),
     hot |-> Stream(Num(350), Num(330), Num(1)),
     cold_mix |-> <<Water>>, hot_mix |-> <<Water>>, q |-> Zero, schema |-> s]

TerminalDT1 == RSub(fs.T_in_hot, fs.T_out_cold)

TerminalDT2 == RSub(fs.T_out_hot, fs.T_in_cold)

LogMean ==
    IF TerminalDT1 = TerminalDT2 THEN TerminalDT1
    ELSE RDiv(RSub(TerminalDT1, TerminalDT2), Ln(RDiv(TerminalDT1, TerminalDT2)))

\* a single-component call under Schema5 with equal capacity rates (A = 0),
\* four temperatures, Q > 0 and positive terminal differences
EqualRatesSchema5 ==
    /\ Len(args.cold_mix) = 1 /\ Len(args.hot_mix) = 1
    /\ args.schema = "Schema5" /\ fs.W_cold = fs.W_hot
    /\ RNonZero(fs.T_in_cold) /\ RNonZero(fs.T_out_cold)
    /\ RNonZero(fs.T_in_hot) /\ RNonZero(fs.T_out_hot)
    /\ RPos(fs.Q) /\ RPos(TerminalDT1) /\ RPos(TerminalDT2)

\* C10: k_source = "lmtd" only when the schema/contact formulas left K at 0;
\* and a single-component call under Schema5 with W_cold = W_hot, four known
\* temperatures, Q > 0 and both terminal differences positive returns
\* k_source = "lmtd" and k = Q / LMTD, where LMTD is the first difference when
\* the two are equal and (first - second)/ln(first/second) otherwise.
C10_LmtdProvenance ==
    Done =>
        /\ out["k_source"] = "lmtd" => fs.K = Zero
        /\ EqualRatesSchema5 =>
               /\ out["k_source"] = "lmtd"
               /\ out["k"] = Round(RDiv(fs.Q, LogMean), 6)

\* hot outlet 340 K: both terminal differences are 50 K, Q = 42 kW, so k = 0.84
C10_EqualDifferences ==
    /\ pc = "returned" /\ args = [Reference("Schema5") EXCEPT !.hot.t_out = Num(340)]
    /\ TerminalDT1 = TerminalDT2
    /\ out["k_source"] = "lmtd" /\ out["k"] = Dec(84, 2)
----------------------------------------------------------------------------
(* A caller of the FlowState API: full() on a FlowState it built.          *)

SingleMixes == {<<>>, <<Water>>}

\* FlowStates of the single-component regime, any schema, Q and K known or not
SingleStates ==
    {[FlowState(Num(tic), Num(toc), Num(tih), Num(toh), Num(gc), Num(1), Num(Q), sch)
         EXCEPT !.K = Num(K)] :
        tic \in {0, 290}, toc \in {0, 295, 300}, tih \in {0, 350},
        toh \in {0, 295, 330}, gc \in Flows, Q \in {0, 84, 100}, K \in {0, 2},
        sch \in SchemaArgs}

\* FlowStates of the multi-component regime, with temperatures on and off the
\* thresholds 295 K and 340 K
MultiStates ==
    {FlowState(Num(tic), Num(toc), Num(tih), Num(toh), Num(gc), Num(1), Num(Q),
               "Schema1") :
        tic \in {0, 290, 295}, toc \in {0, 295, 300}, tih \in {0, 340, 350},
        toh \in {0, 330, 340}, gc \in {1, 2}, Q \in {0, 84, 2000}}

InitFull ==
    /\ \/ /\ fs \in SingleStates
          /\ args \in [cold_mix : SingleMixes, hot_mix : SingleMixes]
       \/ /\ fs \in MultiStates
          /\ args \in {a \in [cold_mix : Mixes, hot_mix : Mixes] :
                          IsMulti(a.cold_mix, a.hot_mix)}
    /\ out = <<>>
    /\ caught = FALSE
    /\ raised = FALSE
    /\ saved = <<>>
    /\ pc = "start"

\* full(state, cold_components, hot_components)
CallFull ==
    /\ pc = "start"
    /\ \E r \in {full(fs, to_components(args.cold_mix), to_components(args.hot_mix))} :
           /\ fs' = r.st
           /\ raised' = r.exc
    /\ saved' = [given |-> fs]
    /\ pc' = "returned"
    /\ UNCHANGED <<args, out, caught>>

\* the caller keeps the state of the first call (with the K it holds), clears Q
\* and calls full again
SolveBack ==
    /\ pc = "returned"
    /\ ~raised
    /\ RNonZero(fs.Q)
    /\ RNonZero(fs.K)
    /\ \E r \in {full([fs EXCEPT !.Q = Zero],
                      to_components(args.cold_mix), to_components(args.hot_mix))} :
           /\ fs' = r.st
           /\ raised' = r.exc
    /\ saved' = [given |-> saved.given, first |-> fs]
    /\ pc' = "solved_back"
    /\ UNCHANGED <<args, out, caught>>

NextFull == CallFull \/ SolveBack

SpecFull == InitFull /\ [][NextFull]_vars

----------------------------------------------------------------------------
(* Properties of full, over SpecFull.                                      *)

\* a single-component state given to full with Q > 0 and K = 0 under Schema1,
\* solved for K and solved back for Q
Schema1Delta == RSub(saved.given.T_out_hot, saved.given.T_out_cold)

Schema1SolvedBack ==
    /\ pc = "solved_back" /\ ~IsMulti(args.cold_mix, args.hot_mix)
    /\ saved.given.schema = "Schema1"
    /\ saved.given.K = Zero /\ RPos(saved.given.Q)
    /\ RNonZero(Schema1Delta)

\* K is kept to 5 decimals and so is Q: half a unit of the fifth decimal of K
\* times |delta|, plus half a unit of the fifth decimal of Q
Schema1Tolerance == RAdd(RMul(RAbs(Schema1Delta), Dec(5, 6)), Dec(5, 6))

ColdThresholdCrossed ==
    \E i \in 1..Len(args.cold_mix) :
        /\ RLt(saved.given.T_in_cold, args.cold_mix[i].tb)
        /\ RLt(args.cold_mix[i].tb, saved.given.T_out_cold)

HotThresholdCrossed ==
    \E i \in 1..Len(args.hot_mix) :
        /\ RLt(saved.given.T_out_hot, args.hot_mix[i].tb)
        /\ RLt(args.hot_mix[i].tb, saved.given.T_in_hot)

\* C8: the contact type is db or cb exactly when some cold component has
\* cold inlet < threshold < cold outlet, and cd or cb exactly when some hot
\* component has hot outlet < threshold < hot inlet, both strictly; a
\* threshold equal to an inlet or an outlet does not count, and the type is dd
\* when no component strictly crosses.
C8_ContactType ==
    pc = "returned" /\ IsMulti(args.cold_mix, args.hot_mix) =>
        /\ fs.contact_type \in {"dd", "db", "cb", "cd"}
        /\ (fs.contact_type \in {"db", "cb"}) <=> ColdThresholdCrossed
        /\ (fs.contact_type \in {"cd", "cb"}) <=> HotThresholdCrossed
        /\ ~ColdThresholdCrossed /\ ~HotThresholdCrossed => fs.contact_type = "dd"

\* a cold component whose threshold 295 K is the cold inlet itself: dd
C8_ThresholdOnInlet ==
    /\ pc = "returned" /\ IsMulti(args.cold_mix, args.hot_mix)
    /\ saved.given.T_in_cold = Num(295) /\ saved.given.T_out_cold = Num(300)
    /\ \E i \in 1..Len(args.cold_mix) : args.cold_mix[i].tb = Num(295)
    /\ fs.contact_type = "dd"

----------------------------------------------------------------------------
(* Provenance of K in the record calculate returns, over Spec.             *)

KSources == {"schema/contact", "mean_delta", "lmtd"}

\* C11 as stated: in every record returned by calculate, k_source is the
\* empty string exactly when k is 0.0; otherwise k_source is one of
\* "schema/contact", "mean_delta", "lmtd", and it is "schema/contact" exactly
\* when the schema or contact formula itself produced a non-zero K.
C11_KSourceIffK ==
    Done =>
        /\ (out["k_source"] = "") <=> (out["k"] = Zero)
        /\ out["k"] /= Zero => out["k_source"] \in KSources
        /\ (out["k_source"] = "schema/contact") <=> RNonZero(fs.K)

\* C11, amended: k_source is the empty string or one of the three tags; an
\* empty k_source goes with k = 0.0 and a non-zero k with a tag; the tag is
\* "schema/contact" exactly when the schema or contact formula produced a
\* non-zero K, and k is then that K. (A fallback that rounds Q / dT to 0.0
\* still tags the record.)
C11_KSourceProvenance ==
    Done =>
        /\ out["k_source"] \in KSources \cup {""}
        /\ out["k_source"] = "" => out["k"] = Zero
        /\ out["k"] /= Zero => out["k_source"] \in KSources
        /\ (out["k_source"] = "schema/contact") <=> RNonZero(fs.K)
        /\ RNonZero(fs.K) => out["k"] = fs.K

\* the hint Q = 0.00001 over an LMTD of 44.8 K: k = 0.0 tagged "lmtd"
C11_RoundedToZero ==
    /\ Done /\ args.q = Dec(1, 5)
    /\ out["k_source"] = "lmtd" /\ out["k"] = Zero

----------------------------------------------------------------------------
(* Regime dispatch, over Spec.                                             *)

ContactTypes == {"dd", "db", "cb", "cd"}

\* the multi-component path of full ran: it alone classifies the contact
MultiRegimeRan == Done /\ fs.contact_type \in ContactTypes

\* the single-component path of full ran: full has no third path
SingleRegimeRan == Done /\ fs.contact_type = None

----------------------------------------------------------------------------
(* A caller that repeats a call after another one: calculate builds its     *)
(* record and its FlowState anew in every call and assigns to neither of   *)
(* its arguments.                                                          *)

\* the repeated calls: unit flows, both inlets known
RepeatArgs ==
    {a \in CalcArgs : /\ a.cold.m = Num(1) /\ a.hot.m = Num(1)
                      /\ a.cold.t_in = Num(290) /\ a.hot.t_in = Num(350)}

\* the calls made in between: the reference scenario, and a two-component
\* call whose hint makes the sigma formula raise
OtherArgs ==
    {Reference("Schema3"),
     [Reference("Schema1") EXCEPT !.q = Num(2000), !.hot_mix = Mix(<<Mid, Water, Light>>, 2)]}

InitRepeat ==
    /\ args \in RepeatArgs
    /\ out = <<>>
    /\ fs = NoState
    /\ caught = FALSE
    /\ raised = FALSE
    /\ saved = [args |-> args]
    /\ pc = "start"

\* another call of calculate, with the arguments b of another caller
CallOther ==
    /\ pc = "returned"
    /\ \E b \in OtherArgs :
         \E r \in {call_calculate(b)} :
           /\ out' = r.out
           /\ fs' = r.fs
           /\ caught' = r.caught
           /\ raised' = r.raised
           /\ saved' = [args |-> saved.args, out |-> out, caught |-> caught,
                        raised |-> raised, other |-> b]
    /\ pc' = "other"
    /\ UNCHANGED args

\* the first call again, with the records the caller still holds
CallAgain ==
    /\ pc = "other"
    /\ \E r \in {call_calculate(args)} :
           /\ out' = r.out
           /\ fs' = r.fs
           /\ caught' = r.caught
           /\ raised' = r.raised
           /\ saved' = [args |-> saved.args, out |-> saved.out, caught |-> saved.caught,
                        raised |-> saved.raised, other |-> saved.other, between |-> out]
    /\ pc' = "again"
    /\ UNCHANGED args

NextRepeat == Calculate \/ CallOther \/ CallAgain

SpecRepeat == InitRepeat /\ [][NextRepeat]_vars

----------------------------------------------------------------------------
(* The effective specific heat as a function: weighted_Cf of calculate and *)
(* _capacity_from_components of full, on one mixture and one temperature.  *)

\* the mixtures of the callers, each component alone, and unequal shares
HeatMixes ==
    Mixes \cup {<<c>> : c \in {Water, Light, Mid}}
          \cup {<<[Light EXCEPT !.share = Dec(3, 1)], [Mid EXCEPT !.share = Dec(7, 1)]>>}

\* reference temperatures below, on and above the thresholds 295, 340, 373 K
HeatTemps == {Num(t) : t \in {0, 290, 295, 300, 310, 330, 340, 350, 360, 373, 400}}

InitHeat ==
    /\ args \in [mix : HeatMixes, T : HeatTemps]
    /\ out = <<>>
    /\ fs = NoState
    /\ caught = FALSE
    /\ raised = FALSE
    /\ saved = <<>>
    /\ pc = "start"

\* both implementations on the same mixture and temperature
EvaluateHeat ==
    /\ pc = "start"
    /\ out' = [weighted |-> weighted_Cf(args.mix, args.T),
               capacity |-> _capacity_from_components(to_components(args.mix), args.T)]
    /\ pc' = "evaluated"
    /\ UNCHANGED <<args, fs, caught, raised, saved>>

NextHeat == EvaluateHeat

SpecHeat == InitHeat /\ [][NextHeat]_vars

\* C14: for every mixture and reference temperature T the effective specific
\* heat is the sum over components of share x (C_f if T < T_b, else C_p), so
\* at T = T_b the vapor value C_p is used, an empty mixture gives 0, and a
\* single component with share 1.0 gives exactly C_f or C_p; weighted_Cf and
\* _capacity_from_components return the same value.
C14_EffectiveHeat ==
    pc = "evaluated" =>
        /\ out.weighted = EffectiveHeat(args.mix, args.T)
        /\ out.capacity = out.weighted
        /\ Len(args.mix) = 0 => out.weighted = Zero
        /\ Len(args.mix) = 1 /\ args.mix[1].share = Num(1) =>
               /\ RLt(args.T, args.mix[1].tb) => out.weighted = args.mix[1].cf
               /\ ~RLt(args.T, args.mix[1].tb) => out.weighted = args.mix[1].cp
               /\ args.T = args.mix[1].tb => out.weighted = args.mix[1].cp

\* the component boiling at 295 K, alone, at T = 295 K: the vapor heat 1.0,
\* not the liquid heat 2.0
C14_VaporAtThreshold ==
    /\ pc = "evaluated" /\ args.mix = <<Light>> /\ args.T = Num(295)
    /\ out.weighted = Num(1) /\ out.capacity = Num(1)

----------------------------------------------------------------------------
(* The two fallbacks of calculate, over Spec.                              *)

\* step 6 on the FlowState the call ended with (nothing assigns to fs after
\* full, and q_used is fs.Q whenever either is non-zero)
MeanDeltaRecord == mean_delta_fallback(out_init, fs, fs.Q)

MeanDeltaProducedK == Done /\ ~caught /\ MeanDeltaRecord["k_source"] = "mean_delta"

\* C15: the LMTD fallback is applied only if K is still unset after the
\* mean-temperature-difference fallback; a K obtained from the mean-delta
\* fallback is final, so whenever step 6 produced a K the result has
\* k_source = "mean_delta" and that K.
C15_MeanDeltaFinal ==
    MeanDeltaProducedK =>
        /\ out["k_source"] = "mean_delta"
        /\ out["k"] = MeanDeltaRecord["k"]

\* the mean temperature of a stream as the claim reads it: the average of
\* inlet and outlet, the inlet alone when the outlet is absent
MeanOrInlet(t_in, t_out) ==
    IF t_out = Zero THEN t_in ELSE RMul(Dec(5, 1), RAdd(t_in, t_out))

MeanDifference ==
    RSub(MeanOrInlet(fs.T_in_hot, fs.T_out_hot), MeanOrInlet(fs.T_in_cold, fs.T_out_cold))

\* sigma was computed, the schema/contact K is 0, Q is known, both inlets are
\* known and an outlet is absent
MissingOutlet ==
    /\ Done /\ ~caught
    /\ RNonZero(fs.Sigma) /\ fs.K = Zero /\ RNonZero(fs.Q)
    /\ RNonZero(fs.T_in_hot) /\ RNonZero(fs.T_in_cold)
    /\ (fs.T_out_hot = Zero \/ fs.T_out_cold = Zero)

\* C16: when sigma was computed, the schema/contact K is 0 and Q is known,
\* the mean temperature of a stream whose outlet temperature is absent is
\* taken to be its inlet temperature alone, and K = Q / (mean_hot - mean_cold)
\* is still produced with k_source "mean_delta" whenever that difference is
\* positive.
C16_MeanDeltaMissingOutlet ==
    MissingOutlet /\ RPos(MeanDifference) =>
        /\ out["k_source"] = "mean_delta"
        /\ out["k"] = Round(RDiv(fs.Q, MeanDifference), 6)

----------------------------------------------------------------------------
(* The schema solvers run through full, over SpecFull.                     *)

\* full returned from its single-component path
SingleReturned == pc = "returned" /\ ~IsMulti(args.cold_mix, args.hot_mix)

\* the state as the solver found it: the caller's state with the capacity
\* rates and A, B that full computes first
SolverEntry ==
    full_capacities(saved.given, to_components(args.cold_mix),
                    to_components(args.hot_mix))

\* C17: frame condition of the five schema solvers run through full in the
\* single-component regime: if Q and K are both non-zero or both zero on
\* entry, neither is changed; a non-zero Q or a non-zero K on entry is never
\* overwritten; and no solver changes any temperature, flow rate or capacity
\* rate.
C17_SolverFrame ==
    SingleReturned =>
        /\ (RNonZero(saved.given.Q) <=> RNonZero(saved.given.K)) =>
               fs.Q = saved.given.Q /\ fs.K = saved.given.K
        /\ RNonZero(saved.given.Q) => fs.Q = saved.given.Q
        /\ RNonZero(saved.given.K) => fs.K = saved.given.K
        /\ fs.T_in_cold = saved.given.T_in_cold /\ fs.T_out_cold = saved.given.T_out_cold
        /\ fs.T_in_hot = saved.given.T_in_hot /\ fs.T_out_hot = saved.given.T_out_hot
        /\ fs.g_cold = saved.given.g_cold /\ fs.g_hot = saved.given.g_hot
        /\ fs.W_cold = SolverEntry.W_cold /\ fs.W_hot = SolverEntry.W_hot
        /\ fs.W = SolverEntry.W

\* Schema3 entered with Q = 84 and K = 2 and every temperature known: both
\* are returned as given
C17_BothKnown ==
    /\ SingleReturned /\ fs.schema = "Schema3"
    /\ saved.given.Q = Num(84) /\ saved.given.K = Num(2)
    /\ RNonZero(fs.W_hot) /\ RNonZero(fs.W_cold)
    /\ RNonZero(fs.T_in_hot) /\ RNonZero(fs.T_out_hot)
    /\ RNonZero(fs.T_in_cold) /\ RNonZero(fs.T_out_cold)
    /\ fs.Q = Num(84) /\ fs.K = Num(2)

----------------------------------------------------------------------------
(* Schema2..Schema5 on a relation that cannot be evaluated, over Spec.     *)

\* the denominator of the schema's K relation on the state st
RelationDenominator(st) ==
    IF st.schema = "Schema2"
    THEN RSub(RSub(st.T_in_hot, st.T_in_cold), RMul(st.B, st.Q))
    ELSE IF st.schema = "Schema3"
    THEN RSub(RSub(st.T_in_hot, st.T_out_hot), RDiv(st.Q, st.W_hot))
    ELSE IF st.schema = "Schema4"
    THEN RSub(RSub(st.T_out_hot, st.T_in_cold), RDiv(st.Q, st.W_cold))
    ELSE RSub(st.T_out_hot, st.T_in_cold)

\* the numerator of the argument of the relation's logarithm
RelationNumerator(st) ==
    IF st.schema = "Schema2" THEN RSub(st.T_in_hot, st.T_in_cold)
    ELSE IF st.schema = "Schema3" THEN RSub(st.T_in_hot, st.T_out_cold)
    ELSE IF st.schema = "Schema4" THEN RSub(st.T_out_hot, st.T_in_cold)
    ELSE RAdd(RSub(st.T_out_hot, st.T_in_cold), RMul(st.A, st.Q))

\* the coefficient the schema's relation divides by is there
RelationApplies(st) ==
    IF st.schema = "Schema2" THEN RNonZero(st.B)
    ELSE IF st.schema = "Schema3" THEN RNonZero(st.W_hot)
    ELSE IF st.schema = "Schema4" THEN RNonZero(st.W_cold)
    ELSE st.schema = "Schema5" /\ RNonZero(st.A)

\* the denominator is zero or the logarithm's argument is not positive
RelationDegenerate(st) ==
    /\ RelationApplies(st)
    /\ \/ RelationDenominator(st) = Zero
       \/ ~RPos(RDiv(RelationNumerator(st), RelationDenominator(st)))

\* steps 6 and 7 on the FlowState the call ended with
FallbackRecord ==
    lmtd_fallback(MeanDeltaRecord, fs, fs.Q, fs.T_in_hot, fs.T_out_hot,
                  fs.T_in_cold, fs.T_out_cold)

\* C18: for Schema2..Schema5 with Q known and K = 0, when the relation's
\* denominator is zero or its logarithm argument is not positive, the solver
\* leaves K at 0 and raises nothing, and calculate then goes on to the step 6
\* and step 7 fallbacks.
C18_DegenerateRelation ==
    /\ Done /\ ~IsMulti(args.cold_mix, args.hot_mix)
    /\ RPos(fs.Q) /\ RelationDegenerate(fs)
    =>
    /\ fs.K = Zero /\ ~caught /\ ~raised
    /\ out["k"] = FallbackRecord["k"]
    /\ out["k_source"] = FallbackRecord["k_source"]
    /\ out["k_source"] \in {"", "mean_delta", "lmtd"}

\* Schema2 with the hint Q = 2000 between unit flows of water: the argument of
\* the logarithm is negative, K stays 0 and the record carries the LMTD K
C18_NegativeArgument ==
    /\ Done /\ args.schema = "Schema2" /\ args.q = Num(2000)
    /\ ~IsMulti(args.cold_mix, args.hot_mix) /\ RelationApplies(fs)
    /\ RelationDenominator(fs) /= Zero
    /\ ~RPos(RDiv(RelationNumerator(fs), RelationDenominator(fs)))
    /\ fs.K = Zero /\ ~caught /\ out["k_source"] = "lmtd"

----------------------------------------------------------------------------
(* Schema5 between equal capacity rates, over Spec.                        *)

\* hot inlet - cold inlet - Q / W_cold on the FlowState the call ended with
EqualCapacityDenominator ==
    RSub(RSub(fs.T_in_hot, fs.T_in_cold), RDiv(fs.Q, fs.W_cold))

\* a single-component Schema5 call with W_cold = W_hot /= 0 and Q > 0 (K is 0
\* on entry in every call of calculate)
EqualCapacitySchema5 ==
    /\ Done /\ ~caught /\ ~IsMulti(args.cold_mix, args.hot_mix)
    /\ args.schema = "Schema5"
    /\ fs.W_cold = fs.W_hot /\ RNonZero(fs.W_cold) /\ RPos(fs.Q)

\* C19: in the single-component regime under Schema5, when W_cold = W_hot
\* (non-zero), Q > 0 and K = 0 on entry, the solver sets
\* K = Q / (hot_inlet - cold_inlet - Q / W_cold) whenever that denominator is
\* non-zero, and the result carries k_source "schema/contact".
C19_EqualCapacityK ==
    EqualCapacitySchema5 /\ EqualCapacityDenominator /= Zero =>
        /\ fs.K = Round(RDiv(fs.Q, EqualCapacityDenominator), 5)
        /\ out["k"] = fs.K
        /\ out["k_source"] = "schema/contact"

----------------------------------------------------------------------------
(* Absent temperatures in the schema relations, over Spec.                 *)

\* every temperature of the K relation of the state's schema is non-zero
RelationTemperaturesKnown(st) ==
    IF st.schema = "Schema2" THEN RNonZero(st.T_in_hot) /\ RNonZero(st.T_in_cold)
    ELSE IF st.schema = "Schema3"
    THEN RNonZero(st.T_in_hot) /\ RNonZero(st.T_out_hot) /\ RNonZero(st.T_out_cold)
    ELSE IF st.schema \in {"Schema4", "Schema5"}
    THEN RNonZero(st.T_out_hot) /\ RNonZero(st.T_in_cold)
    ELSE RNonZero(st.T_out_hot) /\ RNonZero(st.T_out_cold)

\* C20: in the single-component regime a schema solver derives K from Q only
\* when every temperature that appears in that schema's relation is known
\* (non-zero): an absent temperature is never used as the number 0. In
\* particular under Schema1 with Q known and exactly one of the two outlet
\* temperatures absent, the step is skipped and K is not set to Q divided by
\* the remaining outlet temperature.
C20_AbsentTemperatureUnused ==
    Done /\ ~IsMulti(args.cold_mix, args.hot_mix) =>
        /\ RNonZero(fs.K) => RelationTemperaturesKnown(fs)
        /\ /\ args.schema \notin {"Schema2", "Schema3", "Schema4", "Schema5"}
           /\ RPos(fs.Q)
           /\ (fs.T_out_hot = Zero) /= (fs.T_out_cold = Zero)
           => fs.K = Zero /\ out["k_source"] /= "schema/contact"

----------------------------------------------------------------------------
(* The contact classification with an absent hot outlet, over Spec.        *)

\* the multi-component regime ran on a state whose hot outlet temperature is
\* absent: the caller gave none and step 2 inferred none
AbsentHotOutlet == MultiRegimeRan /\ fs.T_out_hot = Zero

\* C21: in the multi-component regime, when the hot outlet temperature is
\* absent (0) and could not be inferred, no hot component is counted as
\* crossing its threshold: the contact type is dd or db, never cd or cb, and
\* no hot-side latent term enters sigma.
C21_AbsentOutletNotCondensing ==
    AbsentHotOutlet =>
        /\ fs.contact_type \in {"dd", "db"}
        /\ out["contact_type"] \notin {"cd", "cb"}
        /\ HotCrossing(fs, to_components(args.hot_mix)) = <<>>

----------------------------------------------------------------------------
(* Sigma of the single-component regime, over Spec.                        *)

\* all four temperatures and both capacity rates of the final state are there
SigmaInputsKnown ==
    /\ RNonZero(fs.W_hot) /\ RNonZero(fs.W_cold)
    /\ RNonZero(fs.T_out_hot) /\ RNonZero(fs.T_in_hot)
    /\ RNonZero(fs.T_out_cold) /\ RNonZero(fs.T_in_cold)

\* W_hot * ln(hot_outlet / hot_inlet) + W_cold * ln(cold_outlet / cold_inlet),
\* to 5 decimals
SensibleSigma ==
    Round(RAdd(RMul(fs.W_hot, Ln(RDiv(fs.T_out_hot, fs.T_in_hot))),
               RMul(fs.W_cold, Ln(RDiv(fs.T_out_cold, fs.T_in_cold)))), 5)

\* the same call under Schema1
SigmaUnderSchema1 == call_calculate([args EXCEPT !.schema = "Schema1"]).out["sigma"]

----------------------------------------------------------------------------
(* Sigma of the contact type dd, over Spec.                                *)

\* C23: in the multi-component regime with contact type dd, the outlet
\* temperatures that enter sigma = W_hot*ln(hot_outlet/hot_inlet) +
\* W_cold*ln(cold_outlet/cold_inlet) are the state's hot and cold outlet
\* temperatures (supplied by the caller or inferred), for every input in which
\* all four temperatures, both capacity rates and Q are known.
C23_DdSigmaFromOutlets ==
    /\ MultiRegimeRan /\ fs.contact_type = "dd"
    /\ SigmaInputsKnown /\ RNonZero(fs.Q)
    /\ RPos(fs.T_out_hot)
    =>
    /\ ~caught
    /\ fs.Sigma = SensibleSigma
    /\ out["sigma"] = SensibleSigma

----------------------------------------------------------------------------
(* The contact type cb, over SpecFull.                                     *)

\* sum of flow * share * r_f / T_b over the components of mix with
\* lo < T_b < hi
RECURSIVE LatentOver(_, _, _, _)
LatentOver(mix, flow, lo, hi) ==
    IF Len(mix) = 0 THEN Zero
    ELSE RAdd(IF RLt(lo, Head(mix).tb) /\ RLt(Head(mix).tb, hi)
              THEN RDiv(RMul(RMul(flow, Head(mix).share), DictGet(Head(mix), "rf", Zero)),
                        Head(mix).tb)
              ELSE Zero,
              LatentOver(Tail(mix), flow, lo, hi))

\* the thresholds of the components of mix with lo < T_b < hi
CrossingThresholds(mix, lo, hi) ==
    {mix[i].tb : i \in {j \in 1..Len(mix) : RLt(lo, mix[j].tb) /\ RLt(mix[j].tb, hi)}}

\* the mean of the crossing thresholds (the components of a mixture have
\* distinct thresholds here, each counts once)
RECURSIVE SumOfSet(_)
SumOfSet(S) ==
    IF S = {} THEN Zero
    ELSE LET x == CHOOSE y \in S : TRUE IN RAdd(x, SumOfSet(S \ {x}))

MeanThreshold(mix, lo, hi) ==
    RDiv(SumOfSet(CrossingThresholds(mix, lo, hi)),
         Num(Cardinality(CrossingThresholds(mix, lo, hi))))

\* mean of the crossing hot thresholds - mean of the crossing cold thresholds
CbDifference ==
    RSub(MeanThreshold(args.hot_mix, fs.T_out_hot, fs.T_in_hot),
         MeanThreshold(args.cold_mix, fs.T_in_cold, fs.T_out_cold))

\* full returned from the contact type cb
CbReturned ==
    pc = "returned" /\ IsMulti(args.cold_mix, args.hot_mix) /\ fs.contact_type = "cb"

\* C24: in the cb regime sigma is the sum over the cold components with
\* cold_inlet < T_b < cold_outlet of cold_flow*share*r_f/T_b minus the sum over
\* the hot components with hot_outlet < T_b < hot_inlet of
\* hot_flow*share*r_f/T_b, components that do not strictly cross contributing
\* nothing; and K = Q / (mean of the crossing hot thresholds - mean of the
\* crossing cold thresholds) whenever that difference is non-zero, K staying
\* unset when it is zero or Q is 0.
C24_CbRegime ==
    CbReturned =>
        /\ fs.Sigma =
              Round(RSub(LatentOver(args.cold_mix, fs.g_cold, fs.T_in_cold, fs.T_out_cold),
                         LatentOver(args.hot_mix, fs.g_hot, fs.T_out_hot, fs.T_in_hot)), 5)
        /\ CbDifference /= Zero => fs.K = Round(RDiv(fs.Q, CbDifference), 5)
        /\ (CbDifference = Zero \/ fs.Q = Zero) => fs.K = Zero

\* cold flow 2 through 290 -> 300 K boils the component of threshold 295 K,
\* hot flow 1 through 350 -> 330 K condenses the one of 340 K, Q = 84:
\* sigma = 2 - 1 and K = 84 / 45
C24_BoilingAndCondensing ==
    /\ CbReturned /\ fs.g_cold = Num(2) /\ fs.Q = Num(84)
    /\ fs.T_in_cold = Num(290) /\ fs.T_out_cold = Num(300)
    /\ fs.T_in_hot = Num(350) /\ fs.T_out_hot = Num(330)
    /\ Len(args.cold_mix) = 2 /\ Len(args.hot_mix) = 2
    /\ fs.Sigma = Num(1) /\ fs.K = Dec(186667, 5)

----------------------------------------------------------------------------
(* Partial results of the multi-component regime, over Spec.               *)

\* C25: when one derivation step of the multi-component regime cannot be
\* evaluated (the dd sigma formula's derived outlet hot_inlet - Q/W_hot is not
\* positive), only that output stays at its default: calculate still reports
\* the contact type and still derives K from the contact formula or from the
\* mean-delta / LMTD fallbacks whenever their own preconditions hold.
C25_PartialResults ==
    MultiRegimeRan =>
        /\ out["contact_type"] = fs.contact_type
        /\ out["k_source"] = FallbackRecord["k_source"] \/ out["k_source"] = "schema/contact"
        /\ FallbackRecord["k_source"] /= "" => out["k"] /= Zero

----------------------------------------------------------------------------
(* The order of the steps of one calculate call, over Spec.                *)

\* the hot outlet temperature as calculate holds it after step 2 (not rounded)
HotOutletAfterInference ==
    IF HotOutletInferable
    THEN RSub(args.hot.t_in, RDiv(QAfterInference, RMul(args.hot.m, HotHeat)))
    ELSE args.hot.t_out

\* the call in which the caller supplies what steps 1 and 2 inferred
InferredArgs ==
    [args EXCEPT !.q = QAfterInference, !.hot.t_out = HotOutletAfterInference]

\* what the regime dispatch and the fallbacks produce
DerivedKeys == {"sigma", "k", "k_source", "contact_type"}

\* C26: Q inference takes effect before hot-outlet inference, which takes
\* effect before the regime dispatch and the fallbacks: the schema solver, the
\* contact classification, sigma and the LMTD fallback use the inferred Q and
\* the inferred hot outlet temperature, never the caller's absent value, so
\* the call returns what it returns when the caller supplies the inferred
\* values.
C26_StepOrder ==
    Done =>
        \E r \in {call_calculate(InferredArgs)} :
            /\ r.caught = caught
            /\ \A key \in DerivedKeys : r.out[key] = out[key]

\* the hint 84 kW with the hot outlet absent: the LMTD fallback works on the
\* inferred 330 K and gives K = 84 / LMTD(50, 40)
C26_LmtdOnInferredOutlet ==
    /\ pc = "returned" /\ args.q = Num(84) /\ args.hot.t_out = Zero
    /\ "t_out_plus" \in DOMAIN out /\ out["t_out_plus"] = Num(330)
    /\ out["k_source"] = "lmtd" /\ fs.T_out_hot = Num(330)

\* all four temperatures given and no hint: the solver and sigma work on the
\* inferred Q = 20 K x 4.2
C26_SigmaOnInferredQ ==
    /\ pc = "returned" /\ args.q = Zero /\ "q" \in DOMAIN out
    /\ out["q"] = Num(84) /\ out["sigma"] /= Zero /\ out["k"] /= Zero

----------------------------------------------------------------------------
(* A caller of the FlowState API: full, pamQ and pamTout in any order on   *)
(* one FlowState.                                                          *)

\* longest sequence of calls on one FlowState
MaxCalls == 3

PamMixes == {<<>>, <<Water>>, Mix(<<Water, Light, Mid>>, 2)}

\* FlowStates as a caller builds them: capacity rates not yet set
PamStates ==
    {FlowState(Num(tic), Num(toc), Num(tih), Num(toh), Num(gc), Num(1), Num(Q),
               "Schema1") :
        tic \in {0, 290}, toc \in {0, 300}, tih \in {0, 350}, toh \in {0, 330},
        gc \in {1, 2}, Q \in {0, 84, 100}}

InitPam ==
    /\ fs \in PamStates
    /\ args \in [cold_mix : PamMixes, hot_mix : PamMixes]
    /\ out = <<>>
    /\ caught = FALSE
    /\ raised = FALSE
    /\ saved = [calls |-> 0]
    /\ pc = "start"

\* full(state, cold_components, hot_components); an exception leaves the state
\* as the call left it
PamCallFull ==
    /\ saved.calls < MaxCalls
    /\ \E r \in {full(fs, to_components(args.cold_mix), to_components(args.hot_mix))} :
           /\ fs' = r.st
           /\ raised' = r.exc
    /\ saved' = [calls |-> saved.calls + 1, op |-> "full", before |-> fs]
    /\ pc' = "called"
    /\ UNCHANGED <<args, out, caught>>

\* pamQ(state, cold_components, hot_components)
PamCallQ ==
    /\ saved.calls < MaxCalls
    /\ fs' = pamQ(fs, to_components(args.cold_mix), to_components(args.hot_mix))
    /\ raised' = FALSE
    /\ saved' = [calls |-> saved.calls + 1, op |-> "pamQ", before |-> fs]
    /\ pc' = "called"
    /\ UNCHANGED <<args, out, caught>>

\* pamTout(state, cold_components, hot_components)
PamCallTout ==
    /\ saved.calls < MaxCalls
    /\ fs' = pamTout(fs, to_components(args.cold_mix), to_components(args.hot_mix))
    /\ raised' = FALSE
    /\ saved' = [calls |-> saved.calls + 1, op |-> "pamTout", before |-> fs]
    /\ pc' = "called"
    /\ UNCHANGED <<args, out, caught>>

NextPam == PamCallFull \/ PamCallQ \/ PamCallTout

SpecPam == InitPam /\ [][NextPam]_vars

\* the last call was pamQ or pamTout
PamReturned == pc = "called" /\ saved.op \in {"pamQ", "pamTout"}

\* the inlet temperatures, the cold outlet temperature and the flow rates are
\* those before the call
PamFrame ==
    /\ fs.T_in_cold = saved.before.T_in_cold /\ fs.T_in_hot = saved.before.T_in_hot
    /\ fs.T_out_cold = saved.before.T_out_cold
    /\ fs.g_cold = saved.before.g_cold /\ fs.g_hot = saved.before.g_hot

\* C27: pamQ and pamTout only fill an absent value: in any sequence of full,
\* pamQ and pamTout calls on one FlowState, pamQ leaves a non-zero Q unchanged
\* and pamTout leaves a non-zero T_out_hot unchanged, and neither changes an
\* inlet temperature, the cold outlet temperature or a flow rate.
C27_PamFillsAbsentOnly ==
    PamReturned =>
        /\ saved.op = "pamQ" /\ RNonZero(saved.before.Q) => fs.Q = saved.before.Q
        /\ saved.op = "pamTout" /\ RNonZero(saved.before.T_out_hot) =>
               fs.T_out_hot = saved.before.T_out_hot
        /\ PamFrame

\* the part of C27 that every call keeps: the frame of pamQ and pamTout
C27_PamFrame == PamReturned => PamFrame

\* pamQ after full, on a state holding Q = 100: Q becomes 20 K x 4.2
C27_QReplaced ==
    /\ PamReturned /\ saved.op = "pamQ" /\ saved.calls = 2
    /\ saved.before.Q = Num(100) /\ fs.Q = Num(84)

----------------------------------------------------------------------------
(* Schema selectors outside the map, over Spec.                            *)

\* a call whose selector is none of Schema1..Schema5 has come back
ForeignSelectorReturned == Done /\ args.schema \notin Schemas

\* C28: a schema selector that is not one of Schema1..Schema5 is handled
\* exactly like Schema1: calculate with it returns the record (and leaves the
\* FlowState, the selector apart) of the same call with "Schema1", and raises
\* no error.
C28_ForeignSelector ==
    ForeignSelectorReturned =>
        \E r \in {call_calculate([args EXCEPT !.schema = "Schema1"])} :
            /\ out = r.out
            /\ [fs EXCEPT !.schema = "Schema1"] = r.fs
            /\ caught = r.caught
            /\ ~raised /\ ~r.raised

\* the reference call under "Schema9": K is the one Schema1 solves,
\* Q / (hot outlet - cold outlet) = 84 / 30
C28_ForeignSolvedAsSchema1 ==
    /\ ForeignSelectorReturned /\ args = Reference("Schema9")
    /\ out["k_source"] = "schema/contact" /\ out["k"] = Dec(28, 1)

----------------------------------------------------------------------------
(* src/analysis_logic.py: vary_component_shares and frange.                *)

\* largest limit a caller passes
MaxLimit == 6

\* limit: negative, zero, below and above the number of values of a sweep
Limits == -1..MaxLimit

\* step: negative, zero, 0.1, 0.25 and a step beyond the range
Steps == {R(-1, 2), Zero, Dec(1, 1), R(1, 4), Num(2)}

\* the test of frange's while loop, x <= stop + 1e-12: the tolerance absorbs
\* the drift of a float sum; the x swept here are multiples of 0.05, for which
\* the test is x <= stop
frange_continues(x, stop) == ~RGt(x, stop)

\* the value frange yields, round(x, 10): the x swept here have at most 8
\* decimals, which rounding to 8 decimals keeps as rounding to 10 does
frange_yield(x) == Round(x, 8)

\* x += step
frange_next(x, step) == RAdd(x, step)

\* (1.0 - val) / max(1, len(rest))
rest_share(val, rest) ==
    RDiv(RSub(Num(1), val), Num(IF Len(rest) > 1 THEN Len(rest) ELSE 1))

\* new_cold / new_hot: the first component takes val and the others share the
\* remainder; a lone component takes 1.0
new_mix(base, val) ==
    IF Tail(base) /= <<>>
    THEN <<DictSet(base[1], "share", val)>> \o
         [i \in 1..(Len(base) - 1) |->
             DictSet(base[i + 1], "share", rest_share(val, Tail(base)))]
    ELSE <<DictSet(base[1], "share", Num(1))>>

\* the streams vary_component_shares passes to calculate
zero_stream == [t_in |-> Zero, t_out |-> Zero, m |-> Zero, p |-> Zero]

\* (float(ans.get("q", 0.0)), float(ans.get("sigma", 0.0)))
point_of(ans) ==
    <<to_float(DictGet(ans, "q", Zero)), to_float(DictGet(ans, "sigma", Zero))>>

\* a variant of the call that passes the streams of the reference scenario
\* instead of the zero streams
vary_call_reference(cold_mix, hot_mix, val) ==
    [cold |-> Stream(Num(290), Num(300), Num(1)),
     hot |-> Stream(Num(350), Num(330), Num(1)),
     cold_mix |-> new_mix(cold_mix, val), hot_mix |-> new_mix(hot_mix, val),
     q |-> Zero, schema |-> "Schema1"]

\* the arguments of the call of logic.calculate for one val
vary_call(cold_mix, hot_mix, val) ==
    [cold |-> zero_stream, hot |-> zero_stream,
     cold_mix |-> new_mix(cold_mix, val), hot_mix |-> new_mix(hot_mix, val),
     q |-> Zero, schema |-> "Schema1"]

\* a variant of the loop's break that lets one more point through
limit_reached_late(points, limit) == Len(points) > limit

\* if len(points) >= limit: break
limit_reached(points, limit) == Len(points) >= limit

InitVary ==
    /\ args \in [cold_mix : Mixes, hot_mix : Mixes, step : Steps, limit : Limits]
    /\ out = <<>>
    /\ fs = NoState
    /\ caught = FALSE
    /\ raised = FALSE
    /\ saved = [x |-> Zero, val |-> Zero, points |-> <<>>]
    /\ pc = "start"

\* points = []; the early return on an empty mixture; x = start
VaryEnter ==
    /\ pc = "start"
    /\ pc' = IF args.cold_mix = <<>> \/ args.hot_mix = <<>> THEN "returned" ELSE "loop"
    /\ UNCHANGED <<args, out, fs, caught, raised, saved>>

\* the head of the for loop: frange yields val and the limit is not reached
VaryYield ==
    /\ pc = "loop"
    /\ frange_continues(saved.x, Num(1))
    /\ ~limit_reached(saved.points, args.limit)
    /\ saved' = [saved EXCEPT !.val = frange_yield(saved.x)]
    /\ pc' = "call"
    /\ UNCHANGED <<args, out, fs, caught, raised>>

\* the body of the for loop: the mixtures for val, the call of
\* logic.calculate, the point appended; then frange advances
VaryCalculate ==
    /\ pc = "call"
    /\ \E a \in {vary_call(args.cold_mix, args.hot_mix, saved.val)} :
       \E r \in {call_calculate(a)} :
           /\ out' = r.out
           /\ fs' = r.fs
           /\ caught' = r.caught
           /\ raised' = r.raised
           /\ saved' = [saved EXCEPT !.x = frange_next(saved.x, args.step),
                                     !.points = Append(saved.points, point_of(r.out))]
    /\ pc' = "loop"
    /\ UNCHANGED args

\* frange is exhausted, or the break: return points
VaryReturn ==
    /\ pc = "loop"
    /\ \/ ~frange_continues(saved.x, Num(1))
       \/ limit_reached(saved.points, args.limit)
    /\ pc' = "returned"
    /\ UNCHANGED <<args, out, fs, caught, raised, saved>>

NextVary == VaryEnter \/ VaryYield \/ VaryCalculate \/ VaryReturn

SpecVary == InitVary /\ [][NextVary]_vars

\* control moves to another statement
VaryAdvances == pc /= "returned" /\ pc' \in {"loop", "call", "returned"} /\ pc' /= pc

\* the interpreter runs the function on: control does not rest before the
\* return.  At "start", "loop" and "call" a step of NextVary is possible and
\* every such step moves control (the two guards at "loop" are complementary,
\* and logic.calculate, straight-line code and loops over the finite mixtures,
\* returns), so this is weak fairness of NextVary
SpecVaryFair == SpecVary /\ WF_pc(VaryAdvances)

\* vary_component_shares has returned, with at most max(limit, 0) points, and
\* with none when a mixture is empty
VaryReturned ==
    /\ pc = "returned"
    /\ Len(saved.points) <= (IF args.limit > 0 THEN args.limit ELSE 0)
    /\ (args.cold_mix = <<>> \/ args.hot_mix = <<>>) => saved.points = <<>>

\* C29: vary_component_shares terminates for every step (zero and negative
\* steps included) and every integer limit, returns at most max(limit, 0)
\* points, and returns the empty list when either mixture is empty.
C29_VaryTerminates == <>VaryReturned

\* a sweep with step 0, which frange never ends, returned limit points
C29_ZeroStepStopped ==
    /\ pc = "returned" /\ args.step = Zero /\ args.limit = MaxLimit
    /\ Len(saved.points) = MaxLimit /\ saved.x = Zero

\* C30: every point returned by vary_component_shares is (0.0, 0.0), for all
\* mixtures and all share values swept: the streams passed to calculate have
\* temperatures and flow rates 0, so neither Q nor sigma is computed.
C30_ZeroPoints ==
    \A i \in 1..Len(saved.points) : saved.points[i] = <<Zero, Zero>>

\* a sweep of two two-component mixtures by 0.25 returned its five points
C30_SweptShares ==
    /\ pc = "returned" /\ args.step = R(1, 4) /\ Len(saved.points) = 5
    /\ Len(args.cold_mix) = 2 /\ Len(args.hot_mix) = 2
    /\ saved.x = R(5, 4)
====
